---- MODULE Spec2Model ----
(***************************************************************************)
(* Model of the e-commerce chat backend: the ChatContext value object      *)
(* (src/domain/entities.py), the SQL conversation store                    *)
(* (src/infrastructure/repositories/chat_repository.py) and the turn       *)
(* orchestration of ChatService.process_message                            *)
(* (src/application/chat_service.py), GeminiService.generate_response      *)
(* (src/infrastructure/llm_providers/gemini_service.py), the history       *)
(* handlers (src/infrastructure/api/main.py), and the Product entity with  *)
(* ProductService (src/application/product_service.py).                    *)
(*                                                                         *)
(* A Python str is a sequence of one-character strings, so that strip(),   *)
(* lower(), f-string formatting and "\n".join() are modelled by what they  *)
(* do.  A call that may raise returns [ok |-> BOOLEAN, val |-> ...].       *)
(***************************************************************************)
EXTENDS Integers, Sequences, FiniteSets, TLC

VARIABLES
    store,      \* chat_memory table: set of rows [id, session_id, role, message, timestamp]
    nextId,     \* next autoincrement primary key of chat_memory
    deleted,    \* history: ids of the rows removed by delete_session_history
    clock,      \* the wall clock as last read by datetime.now(UTC) / datetime.utcnow()
    catalog,    \* products table, as read by get_all()
    running,    \* the coroutine that holds the event loop (0: none)
    turns,      \* per process_message call: program counter and locals
    ctx,        \* a ChatContext under test: [messages, max_messages]
    ctxOut,     \* the last ChatContext method call and what it returned
    model,      \* GeminiService.model: the model id of the active GenerativeModel
    gen,        \* per generate_response call: program counter and locals
    downgraded, \* history: a fallback attempt of this instance has succeeded
    built,      \* _build_prompt under test: its arguments and the prompts it returned
    purge,      \* per delete_session_history call: program counter and locals
    hist,       \* the get_session_history call made, and what it returned
    productTable, \* products table: set of rows [id, name, price, stock]
    nextPid,    \* next autoincrement primary key of products
    pcall,      \* the last ProductService call and how it ended
    item,       \* a Product entity under test
    stockOp     \* the last stock operation on the entity and how it ended

\* the variables of the parts of the program a step of the chat turn or of a
\* ChatContext call never touches
geminiVars == <<model, gen, downgraded, built>>
storeCallVars == <<purge, hist>>
productVars == <<productTable, nextPid, pcall>>
stockVars == <<item, stockOp>>
entityVars == <<productVars, stockVars>>
restVars == <<geminiVars, storeCallVars, entityVars>>

vars == <<store, nextId, deleted, clock, catalog, running, turns, ctx, ctxOut, restVars>>

-----------------------------------------------------------------------------
(* Bounds of the model *)

\* longest message list given to a ChatContext under test
MaxLen == 3
\* largest max_messages given to a ChatContext under test
MaxK == 2

-----------------------------------------------------------------------------
(* Python strings *)

S_user == <<"u", "s", "e", "r">>
S_assistant == <<"a", "s", "s", "i", "s", "t", "a", "n", "t">>
S_usuario == <<"u", "s", "u", "a", "r", "i", "o">>
S_asistente == <<"a", "s", "i", "s", "t", "e", "n", "t", "e">>
S_User_padded == <<" ", "U", "s", "e", "r", " ">>
S_system == <<"s", "y", "s", "t", "e", "m">>
S_hi == <<"h", "i">>
S_ok == <<"o", "k">>
S_two_lines == <<"a", "\n", "b">>
S_blank == <<" ">>
S_empty == <<>>
S_s1 == <<"s", "1">>
S_s2 == <<"s", "2">>

\* str.isspace() for one character
IsSpace(c) == c \in {" ", "\n", "\t"}

UpperLetters ==
    <<"A", "B", "C", "D", "E", "F", "G", "H", "I", "J", "K", "L", "M",
      "N", "O", "P", "Q", "R", "S", "T", "U", "V", "W", "X", "Y", "Z">>
LowerLetters ==
    <<"a", "b", "c", "d", "e", "f", "g", "h", "i", "j", "k", "l", "m",
      "n", "o", "p", "q", "r", "s", "t", "u", "v", "w", "x", "y", "z">>

\* str.lower() for one character
LowerChar(c) ==
    IF \E i \in 1..26 : UpperLetters[i] = c
    THEN LowerLetters[CHOOSE i \in 1..26 : UpperLetters[i] = c]
    ELSE c

\* str.lower()
Lower(s) == [i \in 1..Len(s) |-> LowerChar(s[i])]

\* str.strip(): drop leading and trailing whitespace
Strip(s) ==
    LET keep == {i \in 1..Len(s) : ~IsSpace(s[i])}
    IN IF keep = {} THEN <<>>
       ELSE LET lo == CHOOSE i \in keep : \A j \in keep : i <= j
                hi == CHOOSE i \in keep : \A j \in keep : j <= i
            IN SubSeq(s, lo, hi)

\* `not v or not v.strip()`: the blank test of the DTO and entity validators
IsBlank(s) == s = <<>> \/ Strip(s) = <<>>

\* "\n".join(lines)
RECURSIVE JoinLines(_)
JoinLines(lines) ==
    IF lines = <<>> THEN <<>>
    ELSE IF Len(lines) = 1 THEN lines[1]
    ELSE lines[1] \o <<"\n">> \o JoinLines(Tail(lines))

\* seq[start:] with Python's treatment of a negative or too large start
PySliceFrom(seq, start) ==
    LET n == Len(seq)
        s0 == IF start < 0 THEN start + n ELSE start
        s == IF s0 < 0 THEN 0 ELSE IF s0 > n THEN n ELSE s0
    IN SubSeq(seq, s + 1, n)

Ok(v) == [ok |-> TRUE, val |-> v]
Raise(e) == [ok |-> FALSE, val |-> e]

-----------------------------------------------------------------------------
(* ChatContext (src/domain/entities.py) *)

\* max_messages is <<>> for None and <<k>> for the int k
NoneValue == <<>>
IsNone(m) == m = <<>>

\* get_recent_messages keeping the head of the list: self.messages[:self.max_messages]
ChatContext_get_recent_messages_head(c) ==
    IF IsNone(c.max_messages) THEN Raise("TypeError")
    ELSE Ok(SubSeq(c.messages, 1,
                   IF c.max_messages[1] < Len(c.messages)
                   THEN c.max_messages[1] ELSE Len(c.messages)))

\* ChatContext.get_recent_messages: self.messages[-self.max_messages:]
\* (-None raises TypeError)
ChatContext_get_recent_messages(c) ==
    IF IsNone(c.max_messages) THEN Raise("TypeError")
    ELSE Ok(PySliceFrom(c.messages, 0 - c.max_messages[1]))

\* role_map.get(raw_role, "user")
role_map_get(raw_role) ==
    CASE raw_role = S_user -> S_user
      [] raw_role = S_assistant -> S_assistant
      [] raw_role = S_usuario -> S_user
      [] raw_role = S_asistente -> S_assistant
      [] OTHER -> S_user

\* the f-string f"{role}: {m.message}" of one message
format_line(m) ==
    LET raw_role == Lower(Strip(m.role))
    IN role_map_get(raw_role) \o <<":", " ">> \o m.message

\* ChatContext.format_for_prompt
ChatContext_format_for_prompt(c) ==
    LET truthy == ~IsNone(c.max_messages) /\ c.max_messages[1] # 0
        msgs == IF truthy THEN PySliceFrom(c.messages, 0 - c.max_messages[1])
                ELSE c.messages
    IN Ok(JoinLines([i \in 1..Len(msgs) |-> format_line(msgs[i])]))

-----------------------------------------------------------------------------
(* Request DTO and ChatMessage entity *)

\* the request DTO without its session_id validator
ChatMessageRequestDTO_valid_message_only(session_id, message) == ~IsBlank(message)

\* ChatMessageRequestDTO: the validators message_not_empty and session_id_not_empty
ChatMessageRequestDTO_valid(session_id, message) ==
    ~IsBlank(message) /\ ~IsBlank(session_id)

\* ChatMessage.__post_init__ without the check of the text
ChatMessage_post_init_any_text(session_id, role, message) ==
    /\ role \in {S_user, S_assistant}
    /\ ~IsBlank(session_id)

\* ChatMessage.__post_init__: TRUE when the construction succeeds
ChatMessage_post_init(session_id, role, message) ==
    /\ role \in {S_user, S_assistant}
    /\ ~IsBlank(message)
    /\ ~IsBlank(session_id)

-----------------------------------------------------------------------------
(* SQLChatRepository (src/infrastructure/repositories/chat_repository.py) *)

\* the window size process_message asks for
WindowSize == 6

\* _model_to_entity applied to a list of rows: ChatMessage(...) validates each
model_to_entity_all(rows) ==
    IF \A i \in 1..Len(rows) :
           ChatMessage_post_init(rows[i].session_id, rows[i].role, rows[i].message)
    THEN Ok(rows)
    ELSE Raise("ValueError")

\* The row an ORDER BY timestamp puts first.  Rows of equal timestamp have no
\* order in SQL: tieScan says whether the engine's sorter leaves them in scan
\* (primary key) order or in the reverse of it.
FirstOf(S, desc, tieScan) ==
    CHOOSE r \in S : \A q \in S \ {r} :
        \/ (IF desc THEN r.timestamp > q.timestamp ELSE r.timestamp < q.timestamp)
        \/ /\ r.timestamp = q.timestamp
           /\ (IF tieScan THEN r.id < q.id ELSE r.id > q.id)

RECURSIVE OrderByTimestamp(_, _, _)
OrderByTimestamp(S, desc, tieScan) ==
    IF S = {} THEN <<>>
    ELSE LET r == FirstOf(S, desc, tieScan)
         IN <<r>> \o OrderByTimestamp(S \ {r}, desc, tieScan)

Reversed(seq) == [i \in 1..Len(seq) |-> seq[Len(seq) + 1 - i]]

\* .limit(count)
Limit(seq, count) == SubSeq(seq, 1, IF count < Len(seq) THEN count ELSE Len(seq))

\* .filter(ChatMemoryModel.session_id == session_id)
FilterSession(rows, session_id) == {r \in rows : r.session_id = session_id}

\* SQLChatRepository.get_recent_messages
SQLChatRepository_get_recent_messages(rows, session_id, count, tieScan) ==
    LET q == Limit(OrderByTimestamp(FilterSession(rows, session_id), TRUE, tieScan), count)
    IN model_to_entity_all(Reversed(q))

\* SQLChatRepository.get_session_history (limit is NoneValue or <<n>>)
SQLChatRepository_get_session_history(rows, session_id, limit, tieScan) ==
    LET all == OrderByTimestamp(FilterSession(rows, session_id), FALSE, tieScan)
        cut == IF IsNone(limit) THEN all ELSE PySliceFrom(all, 0 - limit[1])
    IN model_to_entity_all(cut)

\* SQLChatRepository.save_message: the row inserted for an entity
SQLChatRepository_save_message(id, session_id, role, message, timestamp) ==
    [id |-> id, session_id |-> session_id, role |-> role,
     message |-> message, timestamp |-> timestamp]

\* SQLChatRepository.delete_session_history: the rows left, and the count removed
SQLChatRepository_delete_session_history(rows, session_id) ==
    [rows |-> rows \ FilterSession(rows, session_id),
     n |-> Cardinality(FilterSession(rows, session_id))]

-----------------------------------------------------------------------------
(* GeminiService (src/infrastructure/llm_providers/gemini_service.py)         *)
(* A fixed block of the prompt that no operation looks into is one element   *)
(* of the sequence; every other text is a sequence of characters.            *)

\* generate_response calls the model follows
MaxGens == 2
Gens == 1..MaxGens

\* os.getenv("GEMINI_MODEL", "gemini-2.5-flash")
PrimaryModel == "gemini-2.5-flash"
\* fallback = "gemini-1.5-flash"
FallbackModel == "gemini-1.5-flash"
\* "No pude generar una respuesta en este momento."
Placeholder == <<"No pude generar una respuesta en este momento.">>

S_not_found == <<"n", "o", "t", " ", "f", "o", "u", "n", "d">>
S_unsupported == <<"u", "n", "s", "u", "p", "p", "o", "r", "t", "e", "d">>
S_ok_padded == <<" ", "o", "k", " ">>

\* `sub in s`
Contains(s, sub) ==
    \E i \in 0..(Len(s) - Len(sub)) : SubSeq(s, i + 1, i + Len(sub)) = sub

\* the decimal digits of a natural number
Digit(d) == <<"0", "1", "2", "3", "4", "5", "6", "7", "8", "9">>[d + 1]
RECURSIVE NatToStr(_)
NatToStr(n) == IF n < 10 THEN <<Digit(n)>> ELSE NatToStr(n \div 10) \o <<Digit(n % 10)>>
\* str(n) / f"{n}" of an int
IntToStr(n) == IF n < 0 THEN <<"-">> \o NatToStr(0 - n) ELSE NatToStr(n)

\* a price is a float: a whole number n, or not-a-number
Num(n) == [nan |-> FALSE, n |-> n]
NaN == [nan |-> TRUE, n |-> 0]
\* f"{p.price:.2f}"
FormatPrice(price) ==
    IF price.nan THEN <<"n", "a", "n">> ELSE IntToStr(price.n) \o <<".", "0", "0">>

\* one line of format_products_info
format_product_line(p) ==
    <<"-", " ">> \o p.name \o <<" ", "|", " ">> \o p.brand
      \o <<" ", "|", " ", "$">> \o FormatPrice(p.price)
      \o <<" ", "|", " ">> \o <<"S", "t", "o", "c", "k", ":", " ">> \o IntToStr(p.stock)
      \o <<" ", "|", " ">> \o <<"T", "a", "l", "l", "a", ":", " ">> \o p.size
      \o <<" ", "|", " ">> \o <<"C", "o", "l", "o", "r", ":", " ">> \o p.color

\* GeminiService.format_products_info
GeminiService_format_products_info(products) ==
    IF products = <<>> THEN <<"-", " ", "(", "s", "i", "n", " ", "p", "r", "o", "d", "u", "c", "t", "o", "s", ")">>
    ELSE JoinLines([i \in 1..Len(products) |-> format_product_line(products[i])])

\* the fixed blocks of the prompt
PromptPreamble ==
    <<"Eres un asistente virtual experto en ventas de zapatos para un e-commerce.\nTu objetivo es ayudar a los clientes a encontrar los zapatos perfectos.\n\n">>
PromptCatalogHeader == <<"PRODUCTOS DISPONIBLES:\n">>
\* (the accented letters of the source literal are written unaccented)
PromptInstructions ==
    <<"INSTRUCCIONES:\n- Se amigable y profesional\n- Usa el contexto de la conversacion anterior\n- Recomienda productos especificos cuando sea apropiado\n- Menciona precios, tallas y disponibilidad\n- Si no tienes informacion, se honesto\n\n">>
PromptUserCue == <<"U", "s", "u", "a", "r", "i", "o", ":", " ">>
PromptAssistantCue == <<"A", "s", "i", "s", "t", "e", "n", "t", "e", ":">>

\* a context argument is [kind |-> "ChatContext", val |-> c] or
\* [kind |-> "str", val |-> text]
\* the history expression without its isinstance branch: a ChatContext is
\* truthy, and the f-string renders its repr
prompt_history_no_isinstance(context) ==
    IF context.kind = "ChatContext" THEN <<"ChatContext(...)">>
    ELSE context.val

\* history = context.format_for_prompt() if isinstance(context, ChatContext) else (context or "")
prompt_history(context) ==
    IF context.kind = "ChatContext" THEN ChatContext_format_for_prompt(context.val).val
    ELSE context.val

\* GeminiService._build_prompt
GeminiService_build_prompt(user_message, products, context) ==
    PromptPreamble
      \o PromptCatalogHeader \o GeminiService_format_products_info(products) \o <<"\n", "\n">>
      \o PromptInstructions
      \o prompt_history(context) \o <<"\n", "\n">>
      \o PromptUserCue \o user_message \o <<"\n", "\n">> \o PromptAssistantCue

\* A provider response: resp.text is a str, is not a str (None), or is missing.
\* text = getattr(resp, "text", "")
response_text(resp) ==
    IF resp.kind = "missing" THEN [kind |-> "str", val |-> S_empty]
    ELSE resp

\* the text returned for a response with no usable text replaced by nothing
text_or_placeholder_raw(resp) ==
    LET text == response_text(resp)
    IN IF text.kind = "str" THEN Strip(text.val) ELSE S_empty

\* text.strip() if isinstance(text, str) and text.strip() else "No pude generar ..."
text_or_placeholder(resp) ==
    LET text == response_text(resp)
    IN IF text.kind = "str" /\ Strip(text.val) # <<>> THEN Strip(text.val)
       ELSE Placeholder

\* "not found" in str(e).lower() or "unsupported" in str(e).lower()
is_model_missing(e) ==
    Contains(Lower(e.msg), S_not_found) \/ Contains(Lower(e.msg), S_unsupported)

\* What the provider may answer to generate_content.  An exception carries the
\* class of the failure and the message str(e) gives.
ProviderResponses ==
    {[kind |-> "str", val |-> S_ok_padded], [kind |-> "str", val |-> S_blank],
     [kind |-> "none", val |-> <<>>], [kind |-> "missing", val |-> <<>>]}
E_model_missing == [class |-> "ModelMissing", msg |-> <<"4", "0", "4", " ", "M", "o", "d", "e", "l", " ", "N", "o", "t", " ", "F", "o", "u", "n", "d">>]
E_model_unsupported == [class |-> "ModelMissing", msg |-> <<"U", "n", "s", "u", "p", "p", "o", "r", "t", "e", "d", " ", "m", "o", "d", "e", "l">>]
E_quota == [class |-> "Quota", msg |-> <<"4", "2", "9", " ", "q", "u", "o", "t", "a">>]
\* the resolver error of the gRPC transport when the host cannot be resolved
E_network == [class |-> "Network", msg |-> <<"5", "0", "3", " ", "D", "N", "S", ":", " ", "D", "o", "m", "a", "i", "n", " ", "n", "a", "m", "e", " ", "n", "o", "t", " ", "f", "o", "u", "n", "d">>]
ProviderErrors == {E_model_missing, E_model_unsupported, E_quota, E_network}

\* the products a caller passes to generate_response
GenProducts ==
    <<[id |-> 1, name |-> <<"P", "e", "g", "a", "s", "u", "s">>, brand |-> <<"N", "i", "k", "e">>,
       price |-> Num(120), stock |-> 5,
       size |-> <<"4", "2">>, color |-> <<"N", "e", "g", "r", "o">>]>>
\* the g-th call passes a message with the conversation as a str (odd g) or as
\* a ChatContext (even g)
GenRequest(g) ==
    IF g % 2 = 1
    THEN [user_message |-> S_hi, context |-> [kind |-> "str", val |-> S_empty]]
    ELSE [user_message |-> S_ok,
          context |-> [kind |-> "ChatContext",
                       val |-> [messages |-> <<[role |-> S_user, message |-> S_hi]>>,
                                max_messages |-> <<WindowSize>>]]]

IdleGen ==
    [pc |-> "idle", prompt |-> <<>>, attempts |-> <<>>, resp |-> <<>>,
     result |-> <<>>, error |-> <<>>,
     \* history: the exception of the primary call, whether this call assigned
     \* self.model, whether the instance was downgraded when the call began
     primary_error |-> <<>>, switched |-> FALSE, after_downgrade |-> FALSE]

\* a GeminiService just constructed, nothing called yet
\* _build_prompt has not been called
NoPrompts ==
    [user_message |-> <<>>, products |-> <<>>,
     \* the prompt returned for the ChatContext and for its text: none, or <<prompt>>
     from_context |-> NoneValue, from_text |-> NoneValue]

GeminiIdle ==
    /\ model = PrimaryModel
    /\ gen = [g \in Gens |-> IdleGen]
    /\ downgraded = FALSE
    /\ built = NoPrompts

-----------------------------------------------------------------------------
(* Calls of the conversation store made by the history handlers *)

\* delete_session_history calls the model follows
MaxPurges == 1
Purgers == 1..MaxPurges
\* rows appended while the history handlers run
MaxRows == 2
\* largest limit given to get_session_history
MaxLimit == 1

IdlePurge ==
    [pc |-> "idle", session_id |-> <<>>, rows |-> {}, n |-> 0,
     \* history: the table when the call read it, the table before and after
     \* the commit, and whether a message of the session was appended since
     \* the call began
     found |-> {}, before |-> {}, after |-> {}, appended |-> FALSE]

NoHist ==
    [op |-> "none", session_id |-> <<>>, limit |-> NoneValue, ok |-> TRUE, val |-> <<>>,
     \* history: the rows of the session when the query ran, the purges that
     \* had returned by then, and those whose session had got a new message
     rows |-> {}, returned |-> {}, appended |-> {}]

\* no history handler has been called yet
StoreCallsIdle ==
    /\ purge = [p \in Purgers |-> IdlePurge]
    /\ hist = NoHist

-----------------------------------------------------------------------------
(* Product entity (src/domain/entities.py), ProductDTO and ProductService   *)
(* (src/application), SQLProductRepository                                   *)

\* largest id the products table hands out
MaxProducts == 2
\* largest price and stock given in a ProductDTO
MaxPrice == 1
MaxStockIn == 1
\* largest stock of the Product entity the stock operations run on
MaxStock == 8

S_Pegasus == <<"P", "e", "g", "a", "s", "u", "s">>

\* x <= 0 and x > 0 on a float: every comparison with NaN is False
FloatLeqZero(price) == ~price.nan /\ price.n <= 0
FloatGtZero(price) == ~price.nan /\ price.n > 0

\* Product.__post_init__: the three checks, in order
Product_post_init(name, price, stock) ==
    IF IsBlank(name)
    THEN [ok |-> FALSE, error |-> "ValueError: nombre"]
    ELSE IF FloatLeqZero(price)
    THEN [ok |-> FALSE, error |-> "ValueError: precio"]
    ELSE IF stock < 0
    THEN [ok |-> FALSE, error |-> "ValueError: stock"]
    ELSE [ok |-> TRUE, error |-> ""]

\* ProductDTO(...): the validators of price and stock; name has none
ProductDTO_validate(d) ==
    IF FloatLeqZero(d.price) THEN [ok |-> FALSE, error |-> "ValidationError: precio"]
    ELSE IF d.stock < 0 THEN [ok |-> FALSE, error |-> "ValidationError: stock"]
    ELSE [ok |-> TRUE, error |-> ""]

\* the data a caller may put in a ProductDTO
ProductNames == {S_empty, S_blank, S_Pegasus}
ProductPrices == {Num(n) : n \in (-1)..MaxPrice} \cup {NaN}
ProductStocks == (-1)..MaxStockIn
ProductData == [name : ProductNames, price : ProductPrices, stock : ProductStocks]

\* Product(id=..., name=dto.name, ..., price=dto.price, stock=dto.stock)
ProductOf(id, d) == [id |-> id, name |-> d.name, price |-> d.price, stock |-> d.stock]

ProductIds(rows) == {r.id : r \in rows}

\* SQLProductRepository.save(product) on a table `rows` whose next
\* autoincrement key is `next`.  products.price is Float, nullable=False:
\* SQLite binds NaN as NULL and the commit raises IntegrityError, other
\* backends keep the NaN (keepsNaN).
SQLProductRepository_save(rows, next, product, keepsNaN) ==
    IF product.price.nan /\ ~keepsNaN
    THEN [ok |-> FALSE, error |-> "IntegrityError", rows |-> rows, next |-> next]
    ELSE IF product.id = NoneValue
    THEN [ok |-> TRUE, error |-> "",
          rows |-> rows \cup {[product EXCEPT !.id = <<next>>]}, next |-> next + 1]
    ELSE IF product.id[1] \notin {r.id[1] : r \in rows}
    THEN [ok |-> TRUE, error |-> "", rows |-> rows \cup {product}, next |-> next]
    ELSE [ok |-> TRUE, error |-> "",
          rows |-> {IF r.id = product.id THEN product ELSE r : r \in rows},
          next |-> next]

\* SQLProductRepository.delete(product_id)
SQLProductRepository_delete(rows, product_id) ==
    IF <<product_id>> \in ProductIds(rows)
    THEN [existed |-> TRUE, rows |-> {r \in rows : r.id # <<product_id>>}]
    ELSE [existed |-> FALSE, rows |-> rows]

\* the seed row of the products table
SeedProducts == {[id |-> <<1>>, name |-> S_Pegasus, price |-> Num(1), stock |-> 1]}

NoProductCall ==
    [op |-> "none", product_id |-> NoneValue,
     data |-> [name |-> S_Pegasus, price |-> Num(1), stock |-> 0],
     ok |-> TRUE, error |-> "",
     \* history: the table before the call, and whether the id existed
     before |-> {}, existed |-> FALSE]

\* Product.is_available()
Product_is_available(p) == p.stock > 0

\* Product.reduce_stock(quantity) refusing to empty the stock
Product_reduce_stock_keep_one(p, quantity) ==
    IF IsNone(quantity) \/ quantity[1] <= 0
    THEN [ok |-> FALSE, error |-> "ValueError: cantidad", p |-> p]
    ELSE IF quantity[1] >= p.stock
    THEN [ok |-> FALSE, error |-> "ValueError: stock insuficiente", p |-> p]
    ELSE [ok |-> TRUE, error |-> "", p |-> [p EXCEPT !.stock = p.stock - quantity[1]]]

\* Product.reduce_stock(quantity)
Product_reduce_stock(p, quantity) ==
    IF IsNone(quantity) \/ quantity[1] <= 0
    THEN [ok |-> FALSE, error |-> "ValueError: cantidad", p |-> p]
    ELSE IF quantity[1] > p.stock
    THEN [ok |-> FALSE, error |-> "ValueError: stock insuficiente", p |-> p]
    ELSE [ok |-> TRUE, error |-> "", p |-> [p EXCEPT !.stock = p.stock - quantity[1]]]

\* Product.increase_stock(quantity) adding the quantity before it checks it
Product_increase_stock_then_check(p, quantity) ==
    IF IsNone(quantity)
    THEN [ok |-> FALSE, error |-> "ValueError: cantidad", p |-> p]
    ELSE IF quantity[1] <= 0
    THEN [ok |-> FALSE, error |-> "ValueError: cantidad",
          p |-> [p EXCEPT !.stock = p.stock + quantity[1]]]
    ELSE [ok |-> TRUE, error |-> "", p |-> [p EXCEPT !.stock = p.stock + quantity[1]]]

\* Product.increase_stock(quantity)
Product_increase_stock(p, quantity) ==
    IF IsNone(quantity) \/ quantity[1] <= 0
    THEN [ok |-> FALSE, error |-> "ValueError: cantidad", p |-> p]
    ELSE [ok |-> TRUE, error |-> "", p |-> [p EXCEPT !.stock = p.stock + quantity[1]]]

\* the quantities given to the stock operations: None, or an int
Quantities == {NoneValue} \cup {<<q>> : q \in (-1)..(MaxStock + 1)}

NoStockOp ==
    [op |-> "none", quantity |-> NoneValue, ok |-> TRUE, error |-> "",
     \* history: the stock before the call, the stock the entity was built
     \* with, and the quantities of the calls that returned (increases added,
     \* reductions subtracted)
     before |-> 0, initial |-> 0, net |-> 0]

\* no product call has been made: the table holds its seed, and the entity
\* under test is a valid Product
EntitiesIdle ==
    /\ productTable = SeedProducts
    /\ nextPid = 2
    /\ pcall = NoProductCall
    /\ item = [id |-> <<1>>, name |-> S_Pegasus, price |-> Num(1), stock |-> 0]
    /\ stockOp = NoStockOp

-----------------------------------------------------------------------------
(* Bounds and inputs of the orchestration model *)

\* process_message calls the model follows
MaxTurns == 2
\* last instant of the wall clock
MaxClock == 1
\* complete turns already stored for session s1 when the service starts
SeedTurns == 3

Turns == 1..MaxTurns
Sessions == {S_s1, S_s2}
\* session ids and messages a caller may put in a request
RequestSessions == Sessions \cup {S_empty}
RequestMessages == {S_hi, S_blank}
\* texts the responder (any ai_service given to ChatService) may return: a
\* reply of two lines, or a blank one
ResponderTexts == {S_two_lines, S_blank}

\* The instants a read of the wall clock may return: the clock has microsecond
\* resolution and is not strictly increasing, so a read returns the instant of
\* the previous read or a later one.
ClockReads == {c \in {clock, clock + 1} : c <= MaxClock}

\* the rows n earlier turns of session s1 left, at distinct past instants
\* (session s2 has no history yet)
SeedRows(n) ==
    {[id |-> i, session_id |-> S_s1,
      role |-> IF i % 2 = 1 THEN S_user ELSE S_assistant,
      message |-> IF i % 2 = 1 THEN S_hi ELSE S_two_lines,
      timestamp |-> i - 2 * n - 1] : i \in 1..(2 * n)}

\* the products table: one product
Catalog == <<[id |-> 1, name |-> "Pegasus", price |-> 120, stock |-> 5]>>

IdleTurn ==
    [pc |-> "idle", session_id |-> <<>>, message |-> <<>>, products |-> <<>>,
     recent |-> <<>>, context |-> <<>>, assistant_text |-> <<>>, saved |-> <<>>,
     result |-> <<>>, calls |-> <<>>, error |-> "none",
     \* history: the rows of the session when get_recent_messages ran
     stored_at_read |-> {}]

\* a ChatContext nobody has called yet
NoCtx == [messages |-> <<>>, max_messages |-> NoneValue]
NoCtxOut == [op |-> "none", ok |-> TRUE, val |-> <<>>]

-----------------------------------------------------------------------------
(* ChatService.process_message (src/application/chat_service.py), one step   *)
(* per collaborator call.  The coroutine keeps the event loop from its start  *)
(* to the await of generate_response and from its resumption to its end;     *)
(* the thread-pool handlers run at any time.  Calls are numbered in their    *)
(* order of arrival.                                                         *)

Set(t, r) == turns' = [turns EXCEPT ![t] = r]
\* the coroutine has ended: what stays is what the caller and the test doubles
\* can see (the request, the result or the exception, the calls made, the
\* entities save_message returned)
Ended(r) ==
    [r EXCEPT !.products = <<>>, !.recent = <<>>, !.context = <<>>,
              !.stored_at_read = {}]
Called(t, name) == Append(turns[t].calls, name)

\* the caller builds ChatMessageRequestDTO(session_id, message) and, when that
\* validates, the coroutine process_message(request) starts
Submit(t, session_id, message) ==
    /\ turns[t].pc = "idle"
    /\ t > 1 => turns[t - 1].pc # "idle"
    /\ running = 0
    /\ IF ChatMessageRequestDTO_valid(session_id, message)
       THEN /\ Set(t, [turns[t] EXCEPT !.pc = "start", !.session_id = session_id,
                                       !.message = message])
            /\ running' = t
       ELSE /\ Set(t, [turns[t] EXCEPT !.pc = "rejected", !.session_id = session_id,
                                       !.message = message, !.error = "ValidationError"])
            /\ running' = running
    /\ UNCHANGED <<store, nextId, deleted, clock, catalog, ctx, ctxOut, restVars>>

\* products = self._product_repo.get_all()
GetAll(t) ==
    /\ turns[t].pc = "start"
    /\ running = t
    /\ Set(t, [turns[t] EXCEPT !.pc = "catalog", !.products = catalog,
                               !.calls = Called(t, "get_all")])
    /\ UNCHANGED <<store, nextId, deleted, clock, catalog, running, ctx, ctxOut, restVars>>

\* recent = self._chat_repo.get_recent_messages(session_id=..., count=6)
GetRecent(t, tieScan) ==
    /\ turns[t].pc = "catalog"
    /\ running = t
    /\ LET r == SQLChatRepository_get_recent_messages(
                    store, turns[t].session_id, WindowSize, tieScan)
       IN IF r.ok
          THEN /\ Set(t, [turns[t] EXCEPT !.pc = "history", !.recent = r.val,
                                          !.calls = Called(t, "get_recent_messages"),
                                          !.stored_at_read =
                                              FilterSession(store, turns[t].session_id)])
               /\ running' = running
          ELSE /\ Set(t, Ended([turns[t] EXCEPT !.pc = "failed", !.error = r.val,
                                          !.calls = Called(t, "get_recent_messages")]))
               /\ running' = 0
    /\ UNCHANGED <<store, nextId, deleted, clock, catalog, ctx, ctxOut, restVars>>

\* context = ChatContext(messages=recent, max_messages=6).format_for_prompt()
BuildContext(t) ==
    /\ turns[t].pc = "history"
    /\ running = t
    /\ LET c == [messages |-> turns[t].recent, max_messages |-> <<WindowSize>>]
       IN Set(t, [turns[t] EXCEPT !.pc = "context",
                                  !.context = ChatContext_format_for_prompt(c).val,
                                  !.calls = Called(t, "format_for_prompt")])
    /\ UNCHANGED <<store, nextId, deleted, clock, catalog, running, ctx, ctxOut, restVars>>

\* process_message saving the user message before it calls the responder
CallResponder_after_save(t) ==
    /\ turns[t].pc = "context"
    /\ running = t
    /\ LET row == SQLChatRepository_save_message(
                      nextId, turns[t].session_id, S_user, turns[t].message, clock)
       IN /\ store' = store \cup {row}
          /\ nextId' = nextId + 1
          /\ Set(t, [turns[t] EXCEPT
                        !.pc = "awaiting",
                        !.saved = Append(turns[t].saved, row),
                        !.calls = turns[t].calls \o
                                      <<"save_message:user", "generate_response">>])
    /\ running' = 0
    /\ UNCHANGED <<deleted, clock, catalog, ctx, ctxOut, restVars>>

\* the responder called on the event loop's own thread: the coroutine keeps
\* the loop while the provider call is pending
CallResponder_blocking(t) ==
    /\ turns[t].pc = "context"
    /\ running = t
    /\ Set(t, [turns[t] EXCEPT !.pc = "awaiting",
                               !.calls = Called(t, "generate_response")])
    /\ running' = running
    /\ UNCHANGED <<store, nextId, deleted, clock, catalog, ctx, ctxOut, restVars>>

\* await self._ai_service.generate_response(...): the call is made and the
\* coroutine is suspended
CallResponder(t) ==
    /\ turns[t].pc = "context"
    /\ running = t
    /\ Set(t, [turns[t] EXCEPT !.pc = "awaiting",
                               !.calls = Called(t, "generate_response")])
    /\ running' = 0
    /\ UNCHANGED <<store, nextId, deleted, clock, catalog, ctx, ctxOut, restVars>>

\* the provider call returns but the coroutine is not resumed
ResponderReturns_lost(t, text) ==
    /\ turns[t].pc = "awaiting"
    /\ running = 0
    /\ Set(t, [turns[t] EXCEPT !.assistant_text = text])
    /\ UNCHANGED <<store, nextId, deleted, clock, catalog, running, ctx, ctxOut, restVars>>

\* the await returns text
ResponderReturns(t, text) ==
    /\ turns[t].pc = "awaiting"
    /\ running = 0
    /\ Set(t, [turns[t] EXCEPT !.pc = "generated", !.assistant_text = text])
    /\ running' = t
    /\ UNCHANGED <<store, nextId, deleted, clock, catalog, ctx, ctxOut, restVars>>

\* process_message keeping the user message of a turn whose responder raised
ResponderRaises_keeps_user(t) ==
    /\ turns[t].pc = "awaiting"
    /\ running = 0
    /\ LET row == SQLChatRepository_save_message(
                      nextId, turns[t].session_id, S_user, turns[t].message, clock)
       IN /\ store' = store \cup {row}
          /\ nextId' = nextId + 1
          /\ Set(t, Ended([turns[t] EXCEPT !.pc = "failed", !.error = "ProviderError",
                                           !.saved = Append(turns[t].saved, row)]))
    /\ UNCHANGED <<deleted, clock, catalog, running, ctx, ctxOut, restVars>>

\* the await raises: the exception leaves process_message
ResponderRaises(t) ==
    /\ turns[t].pc = "awaiting"
    /\ running = 0
    /\ Set(t, Ended([turns[t] EXCEPT !.pc = "failed", !.error = "ProviderError"]))
    /\ UNCHANGED <<store, nextId, deleted, clock, catalog, running, ctx, ctxOut, restVars>>

\* user_msg = ChatMessage(id=None, session_id=..., role="user", message=request.message, timestamp=now)
user_msg(t, now) ==
    [session_id |-> turns[t].session_id, role |-> S_user,
     message |-> turns[t].message, timestamp |-> now]

\* the assistant message built from the request text instead of the responder's
assistant_msg_echo(t, utcnow) ==
    [session_id |-> turns[t].session_id, role |-> S_assistant,
     message |-> turns[t].message, timestamp |-> utcnow]

\* assistant_msg = ChatMessage(id=None, ..., role="assistant", message=assistant_text, timestamp=datetime.utcnow())
assistant_msg(t, utcnow) ==
    [session_id |-> turns[t].session_id, role |-> S_assistant,
     message |-> turns[t].assistant_text, timestamp |-> utcnow]

\* ChatMessageResponseDTO(session_id=..., user_message=..., assistant_message=assistant_text, ...)
response_dto(t) ==
    [session_id |-> turns[t].session_id, user_message |-> turns[t].message,
     assistant_message |-> turns[t].assistant_text]

\* the construction and append of a message with a compensating delete of the
\* turn's earlier rows when the construction fails
ConstructAndSave_with_rollback(t, e, nextPc, name) ==
    IF ChatMessage_post_init(e.session_id, e.role, e.message)
    THEN LET row == SQLChatRepository_save_message(
                        nextId, e.session_id, e.role, e.message, e.timestamp)
         IN /\ store' = store \cup {row}
            /\ nextId' = nextId + 1
            /\ Set(t, [turns[t] EXCEPT !.pc = nextPc,
                                       !.saved = Append(turns[t].saved, row),
                                       !.calls = Called(t, name)])
            /\ running' = running
    ELSE /\ Set(t, Ended([turns[t] EXCEPT !.pc = "failed", !.error = "ValueError"]))
         /\ running' = 0
         /\ store' = store \ {turns[t].saved[i] : i \in 1..Len(turns[t].saved)}
         /\ UNCHANGED nextId

\* ChatMessage(...) followed by self._chat_repo.save_message(...): a failed
\* construction raises ValueError before the repository is called
ConstructAndSave(t, e, nextPc, name) ==
    IF ChatMessage_post_init(e.session_id, e.role, e.message)
    THEN LET row == SQLChatRepository_save_message(
                        nextId, e.session_id, e.role, e.message, e.timestamp)
         IN /\ store' = store \cup {row}
            /\ nextId' = nextId + 1
            /\ Set(t, [turns[t] EXCEPT !.pc = nextPc,
                                       !.saved = Append(turns[t].saved, row),
                                       !.calls = Called(t, name)])
            /\ running' = running
    ELSE /\ Set(t, Ended([turns[t] EXCEPT !.pc = "failed", !.error = "ValueError"]))
         /\ running' = 0
         /\ UNCHANGED <<store, nextId>>

\* now = datetime.now(UTC); user_msg = ChatMessage(...); save_message(user_msg)
SaveUser(t, now) ==
    /\ turns[t].pc = "generated"
    /\ running = t
    /\ clock' = now
    /\ ConstructAndSave(t, user_msg(t, now), "userSaved", "save_message:user")
    /\ UNCHANGED <<deleted, catalog, ctx, ctxOut, restVars>>

\* a second append that stores the reply under the user role
SaveAssistant_as_user(t, utcnow) ==
    /\ turns[t].pc = "userSaved"
    /\ running = t
    /\ clock' = utcnow
    /\ ConstructAndSave(t, [assistant_msg(t, utcnow) EXCEPT !.role = S_user],
                        "assistantSaved", "save_message:assistant")
    /\ UNCHANGED <<deleted, catalog, ctx, ctxOut, restVars>>

\* assistant_msg = ChatMessage(...); save_message(assistant_msg)
SaveAssistant(t, utcnow) ==
    /\ turns[t].pc = "userSaved"
    /\ running = t
    /\ clock' = utcnow
    /\ ConstructAndSave(t, assistant_msg(t, utcnow), "assistantSaved",
                        "save_message:assistant")
    /\ UNCHANGED <<deleted, catalog, ctx, ctxOut, restVars>>

\* return ChatMessageResponseDTO(...)
Return(t) ==
    /\ turns[t].pc = "assistantSaved"
    /\ running = t
    /\ Set(t, Ended([turns[t] EXCEPT !.pc = "done", !.result = <<response_dto(t)>>,
                                     !.calls = Called(t, "return")]))
    /\ running' = 0
    /\ UNCHANGED <<store, nextId, deleted, clock, catalog, ctx, ctxOut, restVars>>

\* the repository call the coroutine is about to make
PendingStoreCall(t) ==
    CASE turns[t].pc = "start" -> "get_all"
      [] turns[t].pc = "catalog" -> "get_recent_messages"
      [] turns[t].pc = "generated" -> "save_message:user"
      [] turns[t].pc = "userSaved" -> "save_message:assistant"
      [] OTHER -> "none"

\* process_message undoing the user message when the assistant append fails
StoreFails_with_rollback(t) ==
    /\ PendingStoreCall(t) # "none"
    /\ running = t
    /\ turns[t].pc = "userSaved" =>
           ChatMessage_post_init(turns[t].session_id, S_assistant, turns[t].assistant_text)
    /\ Set(t, Ended([turns[t] EXCEPT !.pc = "failed", !.error = "StoreError",
                                     !.calls = Called(t, PendingStoreCall(t)),
                                     !.saved = <<>>]))
    /\ store' = store \ {turns[t].saved[i] : i \in 1..Len(turns[t].saved)}
    /\ running' = 0
    /\ UNCHANGED <<nextId, deleted, clock, catalog, ctx, ctxOut, restVars>>

\* a repository call raises (the database fails): the exception leaves
\* process_message, which has no handler
StoreFails(t) ==
    /\ PendingStoreCall(t) # "none"
    /\ running = t
    /\ turns[t].pc = "userSaved" =>
           ChatMessage_post_init(turns[t].session_id, S_assistant, turns[t].assistant_text)
    /\ Set(t, Ended([turns[t] EXCEPT !.pc = "failed", !.error = "StoreError",
                                     !.calls = Called(t, PendingStoreCall(t))]))
    /\ running' = 0
    /\ UNCHANGED <<store, nextId, deleted, clock, catalog, ctx, ctxOut, restVars>>

\* a purge that empties the whole table
Purge_every_session(session_id) ==
    /\ FilterSession(store, session_id) # {}
    /\ store' = {}
    /\ deleted' = deleted \cup {r.id : r \in store}
    /\ UNCHANGED <<nextId, clock, catalog, running, turns, ctx, ctxOut, restVars>>

\* ChatService.clear_session_history / the DELETE handler, run in the thread pool
Purge(session_id) ==
    /\ FilterSession(store, session_id) # {}
    /\ store' = SQLChatRepository_delete_session_history(store, session_id).rows
    /\ deleted' = deleted \cup {r.id : r \in FilterSession(store, session_id)}
    /\ UNCHANGED <<nextId, clock, catalog, running, turns, ctx, ctxOut, restVars>>

Init ==
    /\ store = SeedRows(SeedTurns)
    /\ nextId = 2 * SeedTurns + 1
    /\ deleted = {}
    /\ clock = 0
    /\ catalog = Catalog
    /\ running = 0
    /\ turns = [t \in Turns |-> IdleTurn]
    /\ ctx = NoCtx
    /\ ctxOut = NoCtxOut
    /\ GeminiIdle
    /\ StoreCallsIdle
    /\ EntitiesIdle

Next ==
    \/ \E t \in Turns, s \in RequestSessions, m \in RequestMessages : Submit(t, s, m)
    \/ \E t \in Turns : GetAll(t)
    \/ \E t \in Turns, tieScan \in BOOLEAN : GetRecent(t, tieScan)
    \/ \E t \in Turns : BuildContext(t)
    \/ \E t \in Turns : CallResponder(t)
    \/ \E t \in Turns, text \in ResponderTexts : ResponderReturns(t, text)
    \/ \E t \in Turns : ResponderRaises(t)
    \/ \E t \in Turns, now \in ClockReads : SaveUser(t, now)
    \/ \E t \in Turns, utcnow \in ClockReads : SaveAssistant(t, utcnow)
    \/ \E t \in Turns : Return(t)
    \/ \E t \in Turns : StoreFails(t)
    \/ \E s \in Sessions : Purge(s)

Spec == Init /\ [][Next]_vars

-----------------------------------------------------------------------------
(* ChatContext called on its own: every message list up to MaxLen over       *)
(* CtxMessages, every max_messages in None, -1 .. MaxK                       *)

\* role strings a message of a context may carry: the canonical ones, the
\* localised ones, a padded upper-case variant and an unknown one
CtxRoles == {S_user, S_assistant, S_usuario, S_asistente, S_User_padded, S_system}

CtxMessages ==
    {[role |-> r, message |-> S_hi] : r \in CtxRoles}
        \cup {[role |-> S_assistant, message |-> S_two_lines]}

CtxLists == UNION {[1..n -> CtxMessages] : n \in 0..MaxLen}

CtxBounds == {NoneValue} \cup {<<k>> : k \in (0 - 1)..MaxK}

\* ctx.get_recent_messages()
CallGetRecentMessages ==
    /\ ctxOut.op = "none"
    /\ LET r == ChatContext_get_recent_messages(ctx)
       IN ctxOut' = [op |-> "get_recent_messages", ok |-> r.ok, val |-> r.val]
    /\ UNCHANGED <<store, nextId, deleted, clock, catalog, running, turns, ctx, restVars>>

\* ctx.format_for_prompt()
CallFormatForPrompt ==
    /\ ctxOut.op = "none"
    /\ LET r == ChatContext_format_for_prompt(ctx)
       IN ctxOut' = [op |-> "format_for_prompt", ok |-> r.ok, val |-> r.val]
    /\ UNCHANGED <<store, nextId, deleted, clock, catalog, running, turns, ctx, restVars>>

CtxInit ==
    /\ store = {}
    /\ nextId = 1
    /\ deleted = {}
    /\ clock = 0
    /\ catalog = Catalog
    /\ running = 0
    /\ turns = [t \in Turns |-> IdleTurn]
    /\ \E l \in CtxLists, k \in CtxBounds : ctx = [messages |-> l, max_messages |-> k]
    /\ ctxOut = NoCtxOut
    /\ GeminiIdle
    /\ StoreCallsIdle
    /\ EntitiesIdle

CtxNext == CallGetRecentMessages \/ CallFormatForPrompt

SpecCtx == CtxInit /\ [][CtxNext]_vars

-----------------------------------------------------------------------------
(* GeminiService.generate_response on one instance.  _call runs in a worker  *)
(* thread (asyncio.to_thread), so the calls of concurrent turns interleave   *)
(* at every statement.  Calls are numbered in their order of arrival.        *)

chatVars == <<store, nextId, deleted, clock, catalog, running, turns>>
ctxVars == <<ctx, ctxOut>>

SetGen(g, r) == gen' = [gen EXCEPT ![g] = r]

\* a provider call sent to the model the instance was configured with
Attempt_configured(g) == [model |-> PrimaryModel, prompt |-> gen[g].prompt]

\* one provider call: self.model.generate_content(prompt)
Attempt(g) == [model |-> model, prompt |-> gen[g].prompt]

\* prompt = self._build_prompt(user_message, products, context); the thread starts
GenerateResponse(g, user_message, context) ==
    /\ gen[g].pc = "idle"
    /\ g > 1 => gen[g - 1].pc # "idle"
    /\ SetGen(g, [gen[g] EXCEPT
                     !.pc = "primary",
                     !.prompt = GeminiService_build_prompt(user_message, GenProducts, context),
                     !.after_downgrade = downgraded])
    /\ UNCHANGED <<model, downgraded, built, chatVars, ctxVars, storeCallVars, entityVars>>

\* resp = self.model.generate_content(prompt): the call is sent
PrimaryCall(g) ==
    /\ gen[g].pc = "primary"
    /\ SetGen(g, [gen[g] EXCEPT !.pc = "primary_wait",
                                !.attempts = Append(gen[g].attempts, Attempt(g))])
    /\ UNCHANGED <<model, downgraded, built, chatVars, ctxVars, storeCallVars, entityVars>>

\* the primary call returns: the text, or the placeholder
PrimaryReturns(g, resp) ==
    /\ gen[g].pc = "primary_wait"
    /\ SetGen(g, [gen[g] EXCEPT !.pc = "returned", !.resp = <<resp>>,
                                !.result = <<text_or_placeholder(resp)>>])
    /\ UNCHANGED <<model, downgraded, built, chatVars, ctxVars, storeCallVars, entityVars>>

\* the handler retrying without replacing self.model
PrimaryRaises_no_switch(g, e) ==
    /\ gen[g].pc = "primary_wait"
    /\ IF is_model_missing(e)
       THEN SetGen(g, [gen[g] EXCEPT !.pc = "fallback", !.primary_error = <<e>>])
       ELSE SetGen(g, [gen[g] EXCEPT !.pc = "raised", !.error = <<e>>,
                                     !.primary_error = <<e>>])
    /\ UNCHANGED <<model, downgraded, built, chatVars, ctxVars, storeCallVars, entityVars>>

\* the primary call raises e: the handler either switches self.model to the
\* fallback model, or re-raises
PrimaryRaises(g, e) ==
    /\ gen[g].pc = "primary_wait"
    /\ IF is_model_missing(e)
       THEN /\ model' = FallbackModel
            /\ SetGen(g, [gen[g] EXCEPT !.pc = "fallback", !.primary_error = <<e>>,
                                        !.switched = TRUE])
       ELSE /\ model' = model
            /\ SetGen(g, [gen[g] EXCEPT !.pc = "raised", !.error = <<e>>,
                                        !.primary_error = <<e>>])
    /\ UNCHANGED <<downgraded, built, chatVars, ctxVars, storeCallVars, entityVars>>

\* resp2 = self.model.generate_content(prompt): the call is sent
FallbackCall(g) ==
    /\ gen[g].pc = "fallback"
    /\ SetGen(g, [gen[g] EXCEPT !.pc = "fallback_wait",
                                !.attempts = Append(gen[g].attempts, Attempt(g))])
    /\ UNCHANGED <<model, downgraded, built, chatVars, ctxVars, storeCallVars, entityVars>>

\* the fallback call returns: the text, or the placeholder
FallbackReturns(g, resp) ==
    /\ gen[g].pc = "fallback_wait"
    /\ SetGen(g, [gen[g] EXCEPT !.pc = "returned", !.resp = <<resp>>,
                                !.result = <<text_or_placeholder(resp)>>])
    /\ downgraded' = TRUE
    /\ UNCHANGED <<model, built, chatVars, ctxVars, storeCallVars, entityVars>>

\* the handler putting the primary model back when the fallback call raises
FallbackRaises_restores(g, e) ==
    /\ gen[g].pc = "fallback_wait"
    /\ SetGen(g, [gen[g] EXCEPT !.pc = "raised", !.error = <<e>>])
    /\ model' = PrimaryModel
    /\ UNCHANGED <<downgraded, built, chatVars, ctxVars, storeCallVars, entityVars>>

\* the fallback call raises inside the handler: the exception leaves _call
FallbackRaises(g, e) ==
    /\ gen[g].pc = "fallback_wait"
    /\ SetGen(g, [gen[g] EXCEPT !.pc = "raised", !.error = <<e>>])
    /\ UNCHANGED <<model, downgraded, built, chatVars, ctxVars, storeCallVars, entityVars>>

GeminiInit ==
    /\ store = {}
    /\ nextId = 1
    /\ deleted = {}
    /\ clock = 0
    /\ catalog = Catalog
    /\ running = 0
    /\ turns = [t \in Turns |-> IdleTurn]
    /\ ctx = NoCtx
    /\ ctxOut = NoCtxOut
    /\ GeminiIdle
    /\ StoreCallsIdle
    /\ EntitiesIdle

GeminiNext ==
    \/ \E g \in Gens : GenerateResponse(g, GenRequest(g).user_message, GenRequest(g).context)
    \/ \E g \in Gens : PrimaryCall(g)
    \/ \E g \in Gens, resp \in ProviderResponses : PrimaryReturns(g, resp)
    \/ \E g \in Gens, e \in ProviderErrors : PrimaryRaises(g, e)
    \/ \E g \in Gens : FallbackCall(g)
    \/ \E g \in Gens, resp \in ProviderResponses : FallbackReturns(g, resp)
    \/ \E g \in Gens, e \in ProviderErrors : FallbackRaises(g, e)

SpecGemini == GeminiInit /\ [][GeminiNext]_vars

-----------------------------------------------------------------------------
(* The conversation store under the history handlers.  chat_history and      *)
(* delete_history run in the thread pool, each with its own database         *)
(* session, while turns append messages: delete_session_history first reads  *)
(* the rows of the session and then deletes the rows it read and commits.    *)

SetPurge(p, r) == purge' = [purge EXCEPT ![p] = r]

\* the purges in flight learn that a message of their session was appended
NoteAppend(session_id) ==
    [p \in Purgers |->
        IF purge[p].pc # "idle" /\ purge[p].session_id = session_id
        THEN [purge[p] EXCEPT !.appended = TRUE]
        ELSE purge[p]]

\* a turn appends a message: save_message(ChatMessage(...)); the roles
\* alternate as the turns write them
SaveMessage(session_id, now) ==
    /\ nextId <= MaxRows
    /\ clock' = now
    /\ store' = store \cup
           {SQLChatRepository_save_message(
                nextId, session_id, IF nextId % 2 = 1 THEN S_user ELSE S_assistant,
                S_hi, now)}
    /\ nextId' = nextId + 1
    /\ purge' = NoteAppend(session_id)
    /\ UNCHANGED <<deleted, catalog, running, turns, hist, ctxVars, geminiVars, entityVars>>

\* rows = self.db.query(ChatMemoryModel).filter(...).all(); n = len(rows)
DeleteRead(p, session_id) ==
    /\ purge[p].pc = "idle"
    /\ p > 1 => purge[p - 1].pc # "idle"
    /\ SetPurge(p, [purge[p] EXCEPT !.pc = "read", !.session_id = session_id,
                                    !.rows = FilterSession(store, session_id),
                                    !.n = Cardinality(FilterSession(store, session_id)),
                                    !.found = store])
    /\ UNCHANGED <<store, nextId, deleted, clock, catalog, running, turns, hist,
                   ctxVars, geminiVars, entityVars>>

\* the commit deleting every row of the table
DeleteCommit_all(p) ==
    /\ purge[p].pc = "read"
    /\ store' = {}
    /\ deleted' = deleted \cup {r.id : r \in store}
    /\ SetPurge(p, [purge[p] EXCEPT !.pc = "returned", !.before = store, !.after = {}])
    /\ UNCHANGED <<nextId, clock, catalog, running, turns, hist, ctxVars, geminiVars, entityVars>>

\* for r in rows: self.db.delete(r); self.db.commit(); return n
DeleteCommit(p) ==
    /\ purge[p].pc = "read"
    /\ store' = store \ purge[p].rows
    /\ deleted' = deleted \cup {r.id : r \in purge[p].rows}
    /\ SetPurge(p, [purge[p] EXCEPT !.pc = "returned", !.before = store,
                                    !.after = store \ purge[p].rows])
    /\ UNCHANGED <<nextId, clock, catalog, running, turns, hist, ctxVars, geminiVars, entityVars>>

\* the limits a caller may give: none, or an int
HistoryLimits == {NoneValue} \cup {<<k>> : k \in 0..MaxLimit}

\* chat_repo.get_session_history(session_id, limit)
GetSessionHistory(session_id, limit, tieScan) ==
    /\ hist.op = "none"
    /\ LET r == SQLChatRepository_get_session_history(store, session_id, limit, tieScan)
       IN hist' = [op |-> "get_session_history", session_id |-> session_id,
                   limit |-> limit, ok |-> r.ok, val |-> r.val,
                   rows |-> FilterSession(store, session_id),
                   returned |-> {p \in Purgers : purge[p].pc = "returned"},
                   appended |-> {p \in Purgers : purge[p].appended}]
    /\ UNCHANGED <<store, nextId, deleted, clock, catalog, running, turns, purge,
                   ctxVars, geminiVars, entityVars>>

StoreInit ==
    /\ store = {}
    /\ nextId = 1
    /\ deleted = {}
    /\ clock = 0
    /\ catalog = Catalog
    /\ running = 0
    /\ turns = [t \in Turns |-> IdleTurn]
    /\ ctx = NoCtx
    /\ ctxOut = NoCtxOut
    /\ GeminiIdle
    /\ StoreCallsIdle
    /\ EntitiesIdle

StoreNext ==
    \/ \E s \in Sessions, now \in ClockReads : SaveMessage(s, now)
    \/ \E p \in Purgers, s \in Sessions : DeleteRead(p, s)
    \/ \E p \in Purgers : DeleteCommit(p)
    \/ \E s \in Sessions, limit \in HistoryLimits, tieScan \in BOOLEAN :
           GetSessionHistory(s, limit, tieScan)

SpecStore == StoreInit /\ [][StoreNext]_vars

-----------------------------------------------------------------------------
(* Claims about ChatContext, checked under SpecCtx *)

Min(a, b) == IF a < b THEN a ELSE b

\* the last n elements of seq, in their order
LastOf(seq, n) == [i \in 1..n |-> seq[Len(seq) - n + i]]

\* the lines of a text: the pieces between its line breaks (none for "")
RECURSIVE SplitLines(_)
SplitLines(s) ==
    IF \A i \in 1..Len(s) : s[i] # "\n" THEN <<s>>
    ELSE LET k == CHOOSE i \in 1..Len(s) :
                      s[i] = "\n" /\ \A j \in 1..(i - 1) : s[j] # "\n"
         IN <<SubSeq(s, 1, k - 1)>> \o SplitLines(SubSeq(s, k + 1, Len(s)))

Lines(s) == IF s = <<>> THEN <<>> ELSE SplitLines(s)

\* the role a transcript line is to show for a stored role string
CanonicalRole(role) ==
    IF role \in {S_assistant, S_asistente} THEN S_assistant ELSE S_user

\* the transcript line of a message: '<role>: <text>'
TranscriptLine(m) == CanonicalRole(m.role) \o <<":", " ">> \o m.message

CtxN == Len(ctx.messages)
CtxGotRecent == ctxOut.op = "get_recent_messages"
CtxGotFormat == ctxOut.op = "format_for_prompt"

\* C8 as stated: for every message sequence of length N and every window
\* bound K (any integer K >= 0), get_recent_messages returns exactly min(N,K)
\* messages, the last min(N,K) of the input in their order.
C8_EveryBound ==
    (CtxGotRecent /\ ~IsNone(ctx.max_messages) /\ ctx.max_messages[1] >= 0) =>
        /\ ctxOut.ok
        /\ ctxOut.val = LastOf(ctx.messages, Min(CtxN, ctx.max_messages[1]))

\* C8 amended: for every window bound K >= 1, get_recent_messages returns
\* exactly min(N,K) messages, the last min(N,K) of the input in their order;
\* for K = 0 it returns the whole sequence.
C8_PositiveBound ==
    (CtxGotRecent /\ ~IsNone(ctx.max_messages)) =>
        /\ ctx.max_messages[1] >= 1 =>
              /\ ctxOut.ok
              /\ Len(ctxOut.val) = Min(CtxN, ctx.max_messages[1])
              /\ ctxOut.val = LastOf(ctx.messages, Min(CtxN, ctx.max_messages[1]))
        /\ ctx.max_messages[1] = 0 => (ctxOut.ok /\ ctxOut.val = ctx.messages)

\* a call that cut a list longer than its bound
C8_Witness ==
    /\ CtxGotRecent
    /\ ~IsNone(ctx.max_messages)
    /\ ctx.max_messages[1] >= 1
    /\ CtxN > ctx.max_messages[1]
    /\ ctxOut.ok
    /\ Len(ctxOut.val) = ctx.max_messages[1]
    /\ ctxOut.val[1] # ctx.messages[1]

\* C9: get_recent_messages never raises, whatever the sequence and
\* max_messages, and returns the whole sequence when max_messages is 0 or None.
C9_Total ==
    CtxGotRecent =>
        /\ ctxOut.ok
        /\ (IsNone(ctx.max_messages) \/ ctx.max_messages = <<0>>) =>
               ctxOut.val = ctx.messages

\* the window format_for_prompt is to render: the last max_messages messages,
\* all of them when max_messages is 0 or None
CtxWindow ==
    IF IsNone(ctx.max_messages) \/ ctx.max_messages = <<0>> THEN ctx.messages
    ELSE ChatContext_get_recent_messages(ctx).val

\* C10: format_for_prompt never fails and its text has exactly one line per
\* message of the window, oldest first, the line of a message being
\* '<role>: <text>' with the normalised role; an empty sequence gives "".
C10_OneLinePerMessage ==
    CtxGotFormat =>
        /\ ctxOut.ok
        /\ Len(Lines(ctxOut.val)) = Len(CtxWindow)
        /\ \A i \in 1..Len(CtxWindow) : Lines(ctxOut.val)[i] = TranscriptLine(CtxWindow[i])
        /\ ctx.messages = <<>> => ctxOut.val = <<>>

\* what holds of format_for_prompt: one entry '<role>: <text>' per message of
\* the window, and as many lines as messages when no text has a line break
FormatForPromptEntries ==
    CtxGotFormat =>
        /\ ctxOut.ok
        /\ (\A i \in 1..Len(CtxWindow) : \A j \in 1..Len(CtxWindow[i].message) :
                CtxWindow[i].message[j] # "\n")
             => /\ Len(Lines(ctxOut.val)) = Len(CtxWindow)
                /\ \A i \in 1..Len(CtxWindow) :
                       Lines(ctxOut.val)[i] = TranscriptLine(CtxWindow[i])
        /\ ctx.messages = <<>> => ctxOut.val = <<>>

S_Usuario == <<"U", "s", "u", "a", "r", "i", "o">>
S_Asistente == <<"A", "s", "i", "s", "t", "e", "n", "t", "e">>

\* the prefix the domain test expects for a stored role
ReadablePrefix(role) == IF role = S_user THEN S_Usuario ELSE S_Asistente

\* no text of the window has a line break
CtxSingleLines ==
    \A i \in 1..Len(CtxWindow) : \A j \in 1..Len(CtxWindow[i].message) :
        CtxWindow[i].message[j] # "\n"

\* C11: for a window of user/assistant messages, format_for_prompt renders
\* each user message with the prefix 'Usuario: ' and each assistant message
\* with the prefix 'Asistente: ', and nothing older than the window.
C11_ReadablePrefixes ==
    (CtxGotFormat /\ CtxSingleLines
        /\ \A i \in 1..Len(CtxWindow) : CtxWindow[i].role \in {S_user, S_assistant}) =>
        /\ ctxOut.ok
        /\ Len(Lines(ctxOut.val)) = Len(CtxWindow)
        /\ \A i \in 1..Len(CtxWindow) :
               Lines(ctxOut.val)[i] =
                   ReadablePrefix(CtxWindow[i].role) \o <<":", " ">> \o CtxWindow[i].message


-----------------------------------------------------------------------------
(* Claims about GeminiService.generate_response, checked under SpecGemini *)

GenEnded(g) == gen[g].pc \in {"returned", "raised"}

\* the primary call of g was rejected as model missing / unsupported
PrimaryRejectedAsMissing(g) ==
    gen[g].primary_error # <<>> /\ gen[g].primary_error[1].class = "ModelMissing"

\* the primary call of g failed for another reason (quota, network, auth, ...)
PrimaryFailedOtherwise(g) ==
    gen[g].primary_error # <<>> /\ gen[g].primary_error[1].class # "ModelMissing"

\* C12: when the first provider call is rejected as model missing/unsupported,
\* exactly one further provider call is made, to the fallback model
\* 'gemini-1.5-flash' and with the same prompt; no generate_response call
\* makes more than two provider calls.
C12_OneFallbackCall ==
    \A g \in Gens :
        /\ Len(gen[g].attempts) <= 2
        /\ \A i \in 1..Len(gen[g].attempts) : gen[g].attempts[i].prompt = gen[g].prompt
        /\ (PrimaryRejectedAsMissing(g) /\ GenEnded(g)) =>
               /\ Len(gen[g].attempts) = 2
               /\ gen[g].attempts[2].model = FallbackModel
               /\ gen[g].attempts[2].prompt = gen[g].attempts[1].prompt
        /\ Len(gen[g].attempts) = 2 => gen[g].primary_error # <<>>

\* a call whose primary attempt went to the configured model and was
\* rejected, and which ended after its fallback attempt
C12_Witness ==
    \E g \in Gens :
        /\ GenEnded(g)
        /\ PrimaryRejectedAsMissing(g)
        /\ gen[g].attempts[1].model = PrimaryModel
        /\ gen[g].attempts[2].model = FallbackModel

\* C13: if the primary call is rejected as model missing/unsupported and the
\* fallback call also fails, generate_response returns the fixed placeholder
\* sentence instead of raising.
C13_PlaceholderWhenFallbackFails ==
    \A g \in Gens :
        (PrimaryRejectedAsMissing(g) /\ GenEnded(g) /\ gen[g].resp = <<>>) =>
            /\ gen[g].pc = "returned"
            /\ gen[g].result = <<Placeholder>>

\* the text the provider gave is a non-blank str
UsableText(resp) == resp.kind = "str" /\ ~IsBlank(resp.val)

\* C14: whenever generate_response returns, the text is non-empty and not
\* whitespace-only: a missing, non-string, empty or whitespace-only provider
\* text, of the primary or of the fallback attempt, is replaced by the
\* placeholder, so the assistant message built from it passes the ChatMessage
\* validation.
C14_NeverBlank ==
    \A g \in Gens : gen[g].pc = "returned" =>
        /\ gen[g].result # <<>>
        /\ ~IsBlank(gen[g].result[1])
        /\ ~UsableText(gen[g].resp[1]) => gen[g].result[1] = Placeholder
        /\ UsableText(gen[g].resp[1]) => gen[g].result[1] = Strip(gen[g].resp[1].val)
        /\ ChatMessage_post_init(S_s1, S_assistant, gen[g].result[1])

\* a primary attempt and a fallback attempt that each returned a blank text,
\* and a call that returned the provider's text
C14_Witness ==
    /\ \E g \in Gens : /\ gen[g].pc = "returned"
                       /\ Len(gen[g].attempts) = 1
                       /\ gen[g].resp[1].val = S_blank
                       /\ gen[g].result = <<Placeholder>>
    /\ \E g \in Gens : /\ gen[g].pc = "returned"
                       /\ Len(gen[g].attempts) = 2
                       /\ gen[g].resp[1].kind = "none"
                       /\ gen[g].result = <<Placeholder>>

\* C15: a provider failure that is not a model-missing/unsupported rejection
\* is never retried: one provider call, the active model left as it was, the
\* failure propagated to the caller.
C15_OtherFailuresNotRetried ==
    \A g \in Gens : PrimaryFailedOtherwise(g) =>
        /\ gen[g].pc = "raised"
        /\ Len(gen[g].attempts) = 1
        /\ ~gen[g].switched
        /\ gen[g].error = gen[g].primary_error

\* what holds of the handler: a failure whose message has neither 'not found'
\* nor 'unsupported' is not retried
UnmatchedFailuresNotRetried ==
    \A g \in Gens :
        (gen[g].primary_error # <<>> /\ ~is_model_missing(gen[g].primary_error[1])) =>
            /\ gen[g].pc = "raised"
            /\ Len(gen[g].attempts) = 1
            /\ ~gen[g].switched
            /\ gen[g].error = gen[g].primary_error

\* C16: after a call in which the fallback attempt succeeded, every later call
\* on the instance sends its first attempt to the fallback model; the
\* instance never switches back to the primary model.
C16_StickyDowngrade ==
    /\ downgraded => model = FallbackModel
    /\ \A g \in Gens :
           (gen[g].after_downgrade /\ gen[g].attempts # <<>>) =>
               \A i \in 1..Len(gen[g].attempts) : gen[g].attempts[i].model = FallbackModel

\* a call that began after a successful fallback and returned from its first
\* attempt, sent to the fallback model
C16_Witness ==
    \E g \in Gens :
        /\ gen[g].after_downgrade
        /\ gen[g].pc = "returned"
        /\ Len(gen[g].attempts) = 1
        /\ gen[g].attempts[1].model = FallbackModel

-----------------------------------------------------------------------------
(* Claims about the history handlers, checked under SpecStore *)

OtherSessions(rows, session_id) == {r \in rows : r.session_id # session_id}

Range(seq) == {seq[i] : i \in 1..Len(seq)}

\* C17: delete_session_history(S) removes every stored message of session S
\* and no message of another session, returns the number of messages S had
\* just before the call, and a get_session_history(S) that follows it (no
\* message of S appended since the call began) returns an empty sequence.
C17_PurgeRemovesSession ==
    \A p \in Purgers : purge[p].pc = "returned" =>
        LET S == purge[p].session_id IN
        /\ \A r \in purge[p].found : r.session_id = S => r \notin purge[p].after
        /\ OtherSessions(purge[p].after, S) = OtherSessions(purge[p].before, S)
        /\ purge[p].n = Cardinality({r \in purge[p].found : r.session_id = S})
        /\ ~purge[p].appended => \A r \in purge[p].after : r.session_id # S
        /\ (hist.op = "get_session_history" /\ hist.session_id = S
               /\ p \in hist.returned /\ p \notin hist.appended) =>
               (hist.ok /\ hist.val = <<>>)

\* a purge that removed the messages of its session, left those of the other
\* session, and was followed by a history read of its session
C17_Witness ==
    \E p \in Purgers :
        /\ purge[p].pc = "returned"
        /\ purge[p].n >= 1
        /\ OtherSessions(purge[p].after, purge[p].session_id) # {}
        /\ hist.op = "get_session_history"
        /\ hist.session_id = purge[p].session_id
        /\ p \in hist.returned
        /\ hist.val = <<>>

HistLen == Len(hist.val)

\* the result is made of rows of the session, oldest first
HistoryChronological ==
    /\ \A i \in 1..HistLen : hist.val[i] \in hist.rows
    /\ \A i, j \in 1..HistLen : i < j =>
           (hist.val[i] # hist.val[j] /\ hist.val[i].timestamp <= hist.val[j].timestamp)

\* the result is made of the k most recent rows of the session
HistoryMostRecent(k) ==
    /\ HistLen = Min(k, Cardinality(hist.rows))
    /\ \A m \in Range(hist.val), o \in hist.rows \ Range(hist.val) :
           o.timestamp <= m.timestamp

\* C18: get_session_history(S, limit) returns only messages of S, oldest
\* first; with no limit all of them, and for every given integer limit at
\* most `limit` messages, the most recent ones of S.
C18_HistoryCapped ==
    hist.op = "get_session_history" =>
        /\ hist.ok
        /\ HistoryChronological
        /\ IF IsNone(hist.limit) THEN Range(hist.val) = hist.rows
           ELSE HistLen <= hist.limit[1] /\ HistoryMostRecent(hist.limit[1])

\* what holds of get_session_history: the claim for no limit and for every
\* limit >= 1; for limit 0 the result is the whole history
HistoryCappedPositive ==
    hist.op = "get_session_history" =>
        /\ hist.ok
        /\ HistoryChronological
        /\ IF IsNone(hist.limit) \/ hist.limit = <<0>> THEN Range(hist.val) = hist.rows
           ELSE HistLen <= hist.limit[1] /\ HistoryMostRecent(hist.limit[1])

-----------------------------------------------------------------------------
(* Claims about a turn of ChatService.process_message, checked under Spec *)

\* the collaborator calls of a turn, in the order of the source
TurnSteps ==
    <<"get_all", "get_recent_messages", "format_for_prompt", "generate_response",
      "save_message:user", "save_message:assistant", "return">>

IsPrefix(p, q) == Len(p) <= Len(q) /\ SubSeq(q, 1, Len(p)) = p

Saves(calls) ==
    Len(SelectSeq(calls, LAMBDA c : c \in {"save_message:user", "save_message:assistant"}))

\* a row saved by a turn is in the table, unless a purge has removed it since
StoredOrPurged(row) == row \in store \/ row.id \in deleted

\* C1: a successful process_message(S, M) appends exactly two messages, both
\* of session S: first the user message with text M, then the assistant
\* message with the responder's text; the result carries S, M and that text.
C1_SuccessfulTurn ==
    \A t \in Turns : turns[t].pc = "done" =>
        LET r == turns[t] IN
        /\ Len(r.saved) = 2
        /\ Saves(r.calls) = 2
        /\ r.saved[1].session_id = r.session_id
        /\ r.saved[1].role = S_user
        /\ r.saved[1].message = r.message
        /\ r.saved[2].session_id = r.session_id
        /\ r.saved[2].role = S_assistant
        /\ r.saved[2].message = r.assistant_text
        /\ r.saved[1].id < r.saved[2].id
        /\ StoredOrPurged(r.saved[1])
        /\ StoredOrPurged(r.saved[2])
        /\ r.result = <<[session_id |-> r.session_id, user_message |-> r.message,
                         assistant_message |-> r.assistant_text]>>

\* a finished turn whose two messages are in the store
C1_Witness ==
    \E t \in Turns :
        /\ turns[t].pc = "done"
        /\ Len(turns[t].saved) = 2
        /\ turns[t].saved[1] \in store
        /\ turns[t].saved[2] \in store

\* C2: when generate_response raises, process_message raises (no result) and
\* the turn has appended nothing: neither the user nor an assistant message.
C2_ResponderFailure ==
    \A t \in Turns : (turns[t].pc = "failed" /\ turns[t].error = "ProviderError") =>
        /\ turns[t].result = <<>>
        /\ turns[t].saved = <<>>
        /\ Saves(turns[t].calls) = 0
        /\ \A r \in store : r.id < nextId /\ (r.id > 2 * SeedTurns =>
               \E u \in Turns : \E i \in 1..Len(turns[u].saved) :
                   turns[u].saved[i] = r /\ u # t)

\* a turn whose responder call raised, after the four steps before it
C2_Witness ==
    \E t \in Turns :
        /\ turns[t].pc = "failed"
        /\ turns[t].error = "ProviderError"
        /\ turns[t].calls = SubSeq(TurnSteps, 1, 4)

\* C3: the collaborator calls of a turn happen in the order catalog read,
\* history read, transcript build, responder call, user append, assistant
\* append, return; a successful turn makes each exactly once, and no append
\* is made before the responder has returned.
C3_CallOrder ==
    \A t \in Turns :
        /\ IsPrefix(turns[t].calls, TurnSteps)
        /\ turns[t].pc = "done" => turns[t].calls = TurnSteps
        /\ turns[t].pc \in {"start", "catalog", "history", "context", "awaiting"} =>
               (turns[t].saved = <<>> /\ Saves(turns[t].calls) = 0)

\* a turn that made all seven steps
C3_Witness == \E t \in Turns : turns[t].pc = "done" /\ Len(turns[t].calls) = 7

FailedAfterUserAppend(t) ==
    /\ turns[t].pc = "failed"
    /\ Len(turns[t].calls) >= 5
    /\ turns[t].calls[5] = "save_message:user"
    /\ ~(turns[t].error = "StoreError" /\ Len(turns[t].calls) = 5)

C5_InvalidRequestRejected ==
    \A t \in Turns :
        (turns[t].pc # "idle"
            /\ (turns[t].session_id \in {S_empty, S_blank}
                  \/ turns[t].message \in {S_empty, S_blank})) =>
            /\ turns[t].pc = "rejected"
            /\ turns[t].error = "ValidationError"
            /\ turns[t].calls = <<>>
            /\ turns[t].saved = <<>>
            /\ turns[t].result = <<>>

\* a rejected request with an empty session id, and one with a blank message
C5_Witness ==
    /\ \E t \in Turns : turns[t].pc = "rejected" /\ turns[t].session_id = S_empty
    /\ \E t \in Turns : turns[t].pc = "rejected" /\ turns[t].message = S_blank

\* the place of the row with this id in a retrieval (0: not in it)
PlaceOf(h, id) ==
    IF \E i \in 1..Len(h) : h[i].id = id
    THEN CHOOSE i \in 1..Len(h) : h[i].id = id
    ELSE 0

Before(h, id1, id2) ==
    (PlaceOf(h, id1) > 0 /\ PlaceOf(h, id2) > 0) => PlaceOf(h, id1) < PlaceOf(h, id2)

\* what get_session_history and get_recent_messages may return for a session
Retrievals(session_id) ==
    {SQLChatRepository_get_session_history(store, session_id, NoneValue, tie).val :
         tie \in BOOLEAN}
      \cup {SQLChatRepository_get_recent_messages(store, session_id, WindowSize, tie).val :
                tie \in BOOLEAN}

\* C6: in every chronological retrieval of the session, the user message of a
\* turn comes before the assistant message of that turn, and both come after
\* every message the turn's history read returned.
C6_ChronologicalOrder ==
    \A t \in Turns : turns[t].pc = "assistantSaved" =>
        LET r == turns[t]
            u == r.saved[1].id
            a == r.saved[2].id
        IN \A h \in Retrievals(r.session_id) :
              /\ Before(h, u, a)
              /\ \A i \in 1..Len(r.recent) :
                     Before(h, r.recent[i].id, u) /\ Before(h, r.recent[i].id, a)

\* what holds of the order: the user message is never stamped later than the
\* assistant message, nor earlier than a message the history read returned
TimestampsNonDecreasing ==
    \A t \in Turns : turns[t].pc = "assistantSaved" =>
        /\ turns[t].saved[1].timestamp <= turns[t].saved[2].timestamp
        /\ \A i \in 1..Len(turns[t].recent) :
               turns[t].recent[i].timestamp <= turns[t].saved[1].timestamp

\* C7: the transcript given to the responder has at most six lines, which are
\* exactly the min(n,6) most recent messages stored for the session when the
\* history was read, oldest first; no message of another session and not the
\* turn's own user message.
C7_TranscriptWindow ==
    \A t \in Turns : turns[t].pc \in {"context", "awaiting"} =>
        LET r == turns[t]
            lines == Lines(r.context)
            n == Cardinality(r.stored_at_read)
            window == {r.recent[i] : i \in 1..Len(r.recent)}
        IN /\ Len(lines) <= WindowSize
           /\ Len(lines) = Min(n, WindowSize)
           /\ Len(r.recent) = Min(n, WindowSize)
           /\ \A i \in 1..Len(r.recent) :
                  i <= Len(lines) /\ lines[i] = TranscriptLine(r.recent[i])
           /\ window \subseteq r.stored_at_read
           /\ \A m \in window : m.session_id = r.session_id
           /\ \A i, j \in 1..Len(r.recent) :
                  i < j => r.recent[i].timestamp <= r.recent[j].timestamp
           /\ \A m \in window, o \in r.stored_at_read \ window :
                  o.timestamp <= m.timestamp

\* what holds of the window: the rows handed to the context builder are the
\* min(n,6) most recent rows of the session at the read, oldest first, and
\* the transcript is their entries '<role>: <text>' joined by line breaks
TranscriptWindowRows ==
    \A t \in Turns : turns[t].pc \in {"context", "awaiting"} =>
        LET r == turns[t]
            n == Cardinality(r.stored_at_read)
            window == {r.recent[i] : i \in 1..Len(r.recent)}
        IN /\ Len(r.recent) = Min(n, WindowSize)
           /\ Cardinality(window) = Len(r.recent)
           /\ r.context = JoinLines([i \in 1..Len(r.recent) |-> TranscriptLine(r.recent[i])])
           /\ window \subseteq r.stored_at_read
           /\ \A m \in window : m.session_id = r.session_id
           /\ \A i, j \in 1..Len(r.recent) :
                  i < j => r.recent[i].timestamp <= r.recent[j].timestamp
           /\ \A m \in window, o \in r.stored_at_read \ window :
                  o.timestamp <= m.timestamp

-----------------------------------------------------------------------------
(* ProductService: create_product, update_product, delete_product *)

nonProductVars == <<chatVars, ctxVars, geminiVars, storeCallVars>>

\* what a product call leaves behind: the table, and the record of the call
ProductCallEnds(op, product_id, data, ok, error, rows, next, existed) ==
    /\ productTable' = rows
    /\ nextPid' = next
    /\ pcall' = [op |-> op, product_id |-> product_id, data |-> data, ok |-> ok,
                 error |-> error, before |-> productTable, existed |-> existed]
    /\ UNCHANGED <<stockVars, nonProductVars>>

\* ProductService.create_product(ProductDTO(**data))
CreateProduct(data, keepsNaN) ==
    /\ nextPid <= MaxProducts
    /\ LET dto == ProductDTO_validate(data)
           ent == Product_post_init(data.name, data.price, data.stock)
           saved == SQLProductRepository_save(productTable, nextPid,
                                              ProductOf(NoneValue, data), keepsNaN)
       IN IF ~dto.ok
          THEN ProductCallEnds("create", NoneValue, data, FALSE, dto.error,
                               productTable, nextPid, FALSE)
          ELSE IF ~ent.ok
          THEN ProductCallEnds("create", NoneValue, data, FALSE,
                               "InvalidProductDataError", productTable, nextPid, FALSE)
          ELSE ProductCallEnds("create", NoneValue, data, saved.ok, saved.error,
                               saved.rows, saved.next, FALSE)

\* ProductService.update_product(product_id, ProductDTO(**data))
UpdateProduct(product_id, data, keepsNaN) ==
    LET dto == ProductDTO_validate(data)
        existed == <<product_id>> \in ProductIds(productTable)
        ent == Product_post_init(data.name, data.price, data.stock)
        saved == SQLProductRepository_save(productTable, nextPid,
                                           ProductOf(<<product_id>>, data), keepsNaN)
    IN IF ~dto.ok
       THEN ProductCallEnds("update", <<product_id>>, data, FALSE, dto.error,
                            productTable, nextPid, existed)
       ELSE IF ~existed
       THEN ProductCallEnds("update", <<product_id>>, data, FALSE,
                            "ProductNotFoundError", productTable, nextPid, existed)
       ELSE IF ~ent.ok
       THEN ProductCallEnds("update", <<product_id>>, data, FALSE,
                            "InvalidProductDataError", productTable, nextPid, existed)
       ELSE ProductCallEnds("update", <<product_id>>, data, saved.ok, saved.error,
                            saved.rows, saved.next, existed)

\* ProductService.delete_product(product_id)
DeleteProduct(product_id) ==
    LET r == SQLProductRepository_delete(productTable, product_id)
    IN ProductCallEnds("delete", <<product_id>>, NoProductCall.data, r.existed,
                       IF r.existed THEN "" ELSE "ProductNotFoundError",
                       r.rows, nextPid, r.existed)

ProductsInit ==
    /\ store = {}
    /\ nextId = 1
    /\ deleted = {}
    /\ clock = 0
    /\ catalog = Catalog
    /\ running = 0
    /\ turns = [t \in Turns |-> IdleTurn]
    /\ ctx = NoCtx
    /\ ctxOut = NoCtxOut
    /\ GeminiIdle
    /\ StoreCallsIdle
    /\ EntitiesIdle

ProductsNext ==
    \/ \E data \in ProductData, keepsNaN \in BOOLEAN : CreateProduct(data, keepsNaN)
    \/ \E id \in 1..MaxProducts, data \in ProductData, keepsNaN \in BOOLEAN :
           UpdateProduct(id, data, keepsNaN)
    \/ \E id \in 1..MaxProducts : DeleteProduct(id)

SpecProducts == ProductsInit /\ [][ProductsNext]_vars

\* name non-blank, price > 0, stock >= 0
ValidProductData(d) == ~IsBlank(d.name) /\ FloatGtZero(d.price) /\ d.stock >= 0

ValidationErrors ==
    {"InvalidProductDataError", "ValidationError: precio", "ValidationError: stock"}

\* the last call was a create, or an update of an existing product
WroteProduct ==
    \/ pcall.op = "create"
    \/ pcall.op = "update" /\ pcall.existed

\* C19: every item held in the catalog store has a non-blank name, price > 0
\* and stock >= 0, and a create or update whose data violates one of these
\* rules fails with a validation error and leaves the catalog unchanged.
C19_CatalogValid ==
    /\ \A p \in productTable : ValidProductData(p)
    /\ (WroteProduct /\ ~ValidProductData(pcall.data)) =>
           /\ ~pcall.ok
           /\ pcall.error \in ValidationErrors
           /\ productTable = pcall.before

\* what holds of the catalog: the claim for every price that is a number
\* (a NaN price passes both validations)
CatalogValidNumbers ==
    /\ \A p \in productTable : p.price.nan \/ ValidProductData(p)
    /\ (WroteProduct /\ ~pcall.data.price.nan /\ ~ValidProductData(pcall.data)) =>
           /\ ~pcall.ok
           /\ pcall.error \in ValidationErrors
           /\ productTable = pcall.before

-----------------------------------------------------------------------------
(* Product.reduce_stock / increase_stock on one entity *)

StockOpEnds(op, quantity, r) ==
    /\ item' = r.p
    /\ stockOp' = [op |-> op, quantity |-> quantity, ok |-> r.ok, error |-> r.error,
                   before |-> item.stock, initial |-> stockOp.initial,
                   net |-> IF ~r.ok THEN stockOp.net
                           ELSE IF op = "increase_stock"
                                THEN stockOp.net + quantity[1]
                                ELSE stockOp.net - quantity[1]]
    /\ UNCHANGED <<productVars, nonProductVars>>

\* item.reduce_stock(quantity)
ReduceStock(quantity) ==
    StockOpEnds("reduce_stock", quantity, Product_reduce_stock(item, quantity))

\* item.increase_stock(quantity)
IncreaseStock(quantity) ==
    /\ IF IsNone(quantity) THEN TRUE ELSE item.stock + quantity[1] <= MaxStock
    /\ StockOpEnds("increase_stock", quantity, Product_increase_stock(item, quantity))

StockNext ==
    \/ \E q \in Quantities : ReduceStock(q)
    \/ \E q \in Quantities : IncreaseStock(q)

SpecStock == ProductsInit /\ [][StockNext]_vars

\* C20: with stock s, reduce_stock(q) fails and leaves s when q <= 0 or
\* q > s, and otherwise leaves s - q (q = s leaves 0, and is_available() is
\* then false); increase_stock(q) fails and leaves s when q <= 0, and
\* otherwise leaves s + q.
C20_StockOps ==
    LET s == stockOp.before
        q == stockOp.quantity[1]
    IN (stockOp.op # "none" /\ ~IsNone(stockOp.quantity)) =>
        /\ stockOp.op = "reduce_stock" =>
               IF q <= 0 \/ q > s
               THEN ~stockOp.ok /\ item.stock = s
               ELSE /\ stockOp.ok
                    /\ item.stock = s - q
                    /\ q = s => (item.stock = 0 /\ ~Product_is_available(item))
        /\ stockOp.op = "increase_stock" =>
               IF q <= 0
               THEN ~stockOp.ok /\ item.stock = s
               ELSE stockOp.ok /\ item.stock = s + q

\* a reduce_stock of the whole stock has emptied the entity
C20_Witness ==
    /\ stockOp.op = "reduce_stock"
    /\ stockOp.ok
    /\ stockOp.before >= 2
    /\ stockOp.quantity = <<stockOp.before>>
    /\ item.stock = 0

-----------------------------------------------------------------------------
(* Claims about the turns as a whole *)

\* C21: every message held in the conversation store has a role in
\* {user, assistant}, a non-blank text and a non-blank session id; a
\* ChatMessage that would break one of these fails at construction (the turn
\* ends with ValueError) and is never appended.
C21_StoredMessagesValid ==
    /\ \A r \in store :
           /\ r.role \in {S_user, S_assistant}
           /\ ~IsBlank(r.message)
           /\ ~IsBlank(r.session_id)
    /\ \A t \in Turns : (turns[t].pc = "failed" /\ turns[t].error = "ValueError") =>
           /\ IsBlank(turns[t].assistant_text)
           /\ Len(turns[t].saved) = 1
           /\ turns[t].saved[1].role = S_user

\* a turn whose responder returned blank text: the assistant message failed
\* at construction and the store holds the turn's user message only
C21_Witness ==
    \E t \in Turns :
        /\ turns[t].pc = "failed"
        /\ turns[t].error = "ValueError"
        /\ IsBlank(turns[t].assistant_text)
        /\ turns[t].saved[1] \in store

InFlight(t) == turns[t].pc \notin {"idle", "rejected", "failed", "done"}
Suspended(t) == turns[t].pc = "awaiting"

\* the next step of call t can be taken: a coroutine between two of its
\* synchronous steps holds the event loop, one whose await has completed
\* needs the loop to be free, and a new call starts when the loop is free
Runnable(t) ==
    CASE turns[t].pc = "idle" -> running = 0 /\ (t > 1 => turns[t - 1].pc # "idle")
      [] Suspended(t) -> running = 0
      [] InFlight(t) -> running = t
      [] OTHER -> FALSE

\* C22: a turn suspended in the responder call does not hold the event loop:
\* while it waits, a turn of another session that has started can take its
\* next step (its reads, its own responder call, its appends, its return)
\* whenever no third coroutine is running.
C22_PendingCallDoesNotBlock ==
    \A a \in Turns : Suspended(a) =>
        /\ running # a
        /\ \A b \in Turns \ {a} :
               (InFlight(b) /\ turns[b].session_id # turns[a].session_id
                   /\ running \in {0, b}) => Runnable(b)

\* the turn of session s2 ran from start to done while the earlier turn of
\* session s1 was still waiting for its responder
C22_Witness ==
    \E a, b \in Turns :
        /\ a < b
        /\ Suspended(a)
        /\ turns[b].pc = "done"
        /\ turns[a].session_id # turns[b].session_id
        /\ Len(turns[b].saved) = 2
        /\ \A i \in 1..2 : turns[b].saved[i] \in store

\* C23: when, after a successful generation and a successful append of the
\* user message, the construction or the append of the assistant message
\* fails, the turn ends with an error and without a result, and the failing
\* step removes nothing: the store is left as it was, the user message
\* included.
C23_NoRollback ==
    [][\A t \in Turns : (turns[t].pc = "userSaved" /\ turns'[t].pc = "failed") =>
           /\ turns'[t].error \in {"ValueError", "StoreError"}
           /\ turns'[t].result = <<>>
           /\ Len(turns'[t].saved) = 1
           /\ turns'[t].saved[1].role = S_user
           /\ turns'[t].saved[1].message = turns[t].message
           /\ store' = store
           /\ deleted' = deleted]_vars

\* both failures of the assistant message have happened with the user
\* message of the turn still stored: a construction that failed and an
\* append that failed
C23_Witness ==
    \E t, u \in Turns :
        /\ FailedAfterUserAppend(t) /\ turns[t].error = "ValueError"
        /\ FailedAfterUserAppend(u) /\ turns[u].error = "StoreError"
        /\ turns[t].saved[1] \in store
        /\ turns[u].saved[1] \in store

-----------------------------------------------------------------------------
(* Turns on a store that holds rows written before the role was validated *)

\* roles found in rows that did not come from process_message
LegacyRoles == {S_usuario, S_system}

\* session s1 holds one row with the given role followed by a regular reply
LegacyRows(role) ==
    {[id |-> 1, session_id |-> S_s1, role |-> role, message |-> S_hi, timestamp |-> 0 - 2],
     [id |-> 2, session_id |-> S_s1, role |-> S_assistant, message |-> S_two_lines,
      timestamp |-> 0 - 1]}

LegacyInit ==
    /\ \E role \in LegacyRoles : store = LegacyRows(role)
    /\ nextId = 3
    /\ deleted = {}
    /\ clock = 0
    /\ catalog = Catalog
    /\ running = 0
    /\ turns = [t \in Turns |-> IdleTurn]
    /\ ctx = NoCtx
    /\ ctxOut = NoCtxOut
    /\ GeminiIdle
    /\ StoreCallsIdle
    /\ EntitiesIdle

SpecLegacy == LegacyInit /\ [][Next]_vars

\* the turn ended in its history read
FailedInHistoryRead(t) ==
    /\ turns[t].pc = "failed"
    /\ turns[t].calls = <<"get_all", "get_recent_messages">>

\* C24: a stored message of session S whose role is not 'user' or
\* 'assistant' never blocks a turn of S: the history read does not fail on
\* it (only a failure of the database ends a turn there), and the transcript
\* carries the line of every message read under its normalised role.
C24_LegacyRoleDoesNotBlock ==
    \A t \in Turns :
        /\ FailedInHistoryRead(t) => turns[t].error = "StoreError"
        /\ turns[t].pc \in {"context", "awaiting"} =>
               turns[t].context =
                   JoinLines([i \in 1..Len(turns[t].recent) |->
                                  TranscriptLine(turns[t].recent[i])])

\* what holds of a turn that reads such a row: it ends in the history read
\* with the ValueError of the entity's constructor, before any transcript is
\* built, and a turn that got past the read has read regular rows only
LegacyRoleEndsTurn ==
    \A t \in Turns :
        /\ (FailedInHistoryRead(t) /\ turns[t].error = "ValueError") =>
               turns[t].session_id = S_s1
        /\ turns[t].pc \in {"history", "context", "awaiting"} =>
               \A i \in 1..Len(turns[t].recent) :
                   turns[t].recent[i].role \in {S_user, S_assistant}

-----------------------------------------------------------------------------
(* Termination of the turns.  A coroutine that holds the event loop runs its  *)
(* synchronous code to the next await or to its end, and a pending responder  *)
(* call returns or raises.                                                    *)

\* the synchronous steps of call t
TurnStep(t) ==
    \/ GetAll(t)
    \/ \E tieScan \in BOOLEAN : GetRecent(t, tieScan)
    \/ BuildContext(t)
    \/ CallResponder(t)
    \/ \E now \in ClockReads : SaveUser(t, now)
    \/ \E utcnow \in ClockReads : SaveAssistant(t, utcnow)
    \/ Return(t)
    \/ StoreFails(t)

\* the responder call of t completes
Responds(t) ==
    \/ \E text \in ResponderTexts : ResponderReturns(t, text)
    \/ ResponderRaises(t)

\* the service starts on an empty chat_memory table
LiveInit ==
    /\ store = {}
    /\ nextId = 1
    /\ deleted = {}
    /\ clock = 0
    /\ catalog = Catalog
    /\ running = 0
    /\ turns = [t \in Turns |-> IdleTurn]
    /\ ctx = NoCtx
    /\ ctxOut = NoCtxOut
    /\ GeminiIdle
    /\ StoreCallsIdle
    /\ EntitiesIdle

\* the event loop runs a coroutine that is ready
LoopRuns == \E t \in Turns : TurnStep(t)
\* the event loop runs a coroutine that is ready, or a pending responder
\* call completes
LoopRunsOrResponds == \E t \in Turns : TurnStep(t) \/ Responds(t)

\* the session of the t-th call: the first two calls share session s1, every
\* later call has a session of its own
LiveSession(t) == IF t <= 2 THEN S_s1 ELSE <<"s", Digit(t)>>

LiveNext ==
    \/ \E t \in Turns, m \in RequestMessages : Submit(t, LiveSession(t), m)
    \/ \E t \in Turns : GetAll(t)
    \/ \E t \in Turns, tieScan \in BOOLEAN : GetRecent(t, tieScan)
    \/ \E t \in Turns : BuildContext(t)
    \/ \E t \in Turns : CallResponder(t)
    \/ \E t \in Turns, text \in ResponderTexts : ResponderReturns(t, text)
    \/ \E t \in Turns : ResponderRaises(t)
    \/ \E t \in Turns, now \in ClockReads : SaveUser(t, now)
    \/ \E t \in Turns, utcnow \in ClockReads : SaveAssistant(t, utcnow)
    \/ \E t \in Turns : Return(t)
    \/ \E t \in Turns : StoreFails(t)
    \/ \E t \in Turns : Purge(LiveSession(t))

\* the turns with every collaborator call returning or raising.  The calls
\* are finitely many and each takes finitely many steps, so fairness of the
\* loop as a whole gives every coroutine its steps.
SpecLive == LiveInit /\ [][LiveNext]_vars /\ WF_vars(LoopRunsOrResponds)

\* the turns with provider calls that may never return
SpecHang == LiveInit /\ [][LiveNext]_vars /\ WF_vars(LoopRuns)

\* the turns and the purges of Next on a store that starts empty: every row
\* was appended by a turn
SpecFresh == LiveInit /\ [][Next]_vars

CallCount(t, name) == Len(SelectSeq(turns[t].calls, LAMBDA c : c = name))

\* at most one catalog read, one history read, one responder call and two
\* appends
CallsBounded(t) ==
    /\ CallCount(t, "get_all") <= 1
    /\ CallCount(t, "get_recent_messages") <= 1
    /\ CallCount(t, "generate_response") <= 1
    /\ Saves(turns[t].calls) <= 2

\* C25: provided each collaborator call returns or raises, every turn ends
\* (result returned or error raised): from some point on no turn is in
\* flight, and each has made at most one catalog read, one history read, one
\* responder call and two appends.
C25_TurnsTerminate ==
    <>[](\A t \in Turns : ~InFlight(t) /\ CallsBounded(t))

\* every turn has ended, one with its result and one with the responder's
\* error
C25_Witness ==
    /\ \A t \in Turns : turns[t].pc \in {"done", "failed"}
    /\ \E t \in Turns : turns[t].pc = "done" /\ Len(turns[t].calls) = 7
    /\ \E t \in Turns : turns[t].pc = "failed" /\ turns[t].error = "ProviderError"

\* with provider calls that may never return, the turns that stay in flight
\* are those waiting for the responder
OnlyProviderHangs ==
    <>[](\A t \in Turns : InFlight(t) => Suspended(t))

\* with provider calls that may never return, every turn ends (this fails)
HangingTurnsTerminate ==
    <>[](\A t \in Turns : ~InFlight(t))

-----------------------------------------------------------------------------
(* The active model of the GeminiService instance, checked under SpecGemini *)

\* the handler of call g found 'not found' or 'unsupported' in the error of
\* its primary attempt
\* the provider errors in whose text the handler finds 'not found' or 'unsupported'
MatchingErrors == {e \in ProviderErrors : is_model_missing(e)}

HandlerMatched(g) ==
    gen[g].primary_error # <<>> /\ gen[g].primary_error[1] \in MatchingErrors

\* C26: the active model changes only as the effect of a successful
\* fallback: while no fallback attempt has succeeded (in particular after a
\* rejected primary call whose fallback call failed too) the active model is
\* the primary one, and calls send their first attempt to it.
C26_SwitchOnlyOnSuccess ==
    (~downgraded /\ \A g \in Gens : gen[g].pc \notin {"fallback", "fallback_wait"}) =>
        /\ model = PrimaryModel
        /\ \A g \in Gens : gen[g].pc = "primary_wait" =>
               gen[g].attempts[1].model = PrimaryModel

\* C26 amended: the active model changes when the handler of a failed
\* primary call finds 'not found' or 'unsupported' in the error: it is
\* replaced by the fallback model before the fallback call is made, and
\* stays replaced whether that call succeeds or fails, so that later calls
\* send their first attempt to the fallback model.
C26_SwitchBeforeFallback ==
    /\ (model = FallbackModel) <=> (\E g \in Gens : HandlerMatched(g))
    /\ model \in {PrimaryModel, FallbackModel}
    /\ \A g \in Gens :
           /\ Len(gen[g].attempts) = 2 => gen[g].attempts[2].model = FallbackModel
           /\ (gen[g].attempts # <<>> /\ gen[g].attempts[1].model = FallbackModel) =>
                  \E h \in Gens \ {g} : HandlerMatched(h)

\* a call whose primary attempt was rejected and whose fallback attempt
\* failed, followed by a call that sent its first attempt to the fallback
\* model although no fallback attempt has succeeded
C26_Witness ==
    \E g, h \in Gens :
        /\ g < h
        /\ gen[g].pc = "raised"
        /\ HandlerMatched(g)
        /\ Len(gen[g].attempts) = 2
        /\ ~downgraded
        /\ gen[h].attempts # <<>>
        /\ gen[h].attempts[1].model = FallbackModel

-----------------------------------------------------------------------------
(* The two appends of a turn and the purge                                   *)

\* the rows in the order they were appended (the primary key grows)
RECURSIVE InAppendOrder(_)
InAppendOrder(rows) ==
    IF rows = {} THEN <<>>
    ELSE LET first == CHOOSE r \in rows : \A q \in rows : r.id <= q.id
         IN <<first>> \o InAppendOrder(rows \ {first})

\* user, assistant, user, assistant, ...: an even number of rows
Alternates(h) ==
    /\ Len(h) % 2 = 0
    /\ \A i \in 1..Len(h) : h[i].role = IF i % 2 = 1 THEN S_user ELSE S_assistant

BetweenAppends(t) == turns[t].pc = "userSaved"

\* no turn has ended after its first append (a blank reply or a failed append)
AppendsSucceed == \A t \in Turns : ~(turns[t].pc = "failed" /\ Len(turns[t].saved) = 1)

Quiet(session_id) ==
    \A t \in Turns : BetweenAppends(t) => turns[t].session_id # session_id

AppendedConsecutively ==
    \A t \in Turns : Len(turns[t].saved) = 2 =>
        /\ turns[t].saved[2].id = turns[t].saved[1].id + 1
        /\ turns[t].saved[1].role = S_user
        /\ turns[t].saved[2].role = S_assistant

\* the first row of h is the reply of a turn whose user message a purge removed
\* between the two appends
OrphanReply(h) ==
    /\ h # <<>>
    /\ \E t \in Turns : /\ Len(turns[t].saved) = 2
                        /\ turns[t].saved[2] = h[1]
                        /\ turns[t].saved[1].id \in deleted

\* C27 (as stated): the two messages of a turn are appended consecutively, and
\* whenever no turn of a session is between its two appends (every append
\* having succeeded) the session's messages in append order alternate user,
\* assistant, starting with user, in even number; purges preserve this.
C27_PairsAlternate ==
    /\ AppendedConsecutively
    /\ AppendsSucceed =>
           \A s \in Sessions :
               Quiet(s) => Alternates(InAppendOrder(FilterSession(store, s)))

\* C27 (amended): the two messages of a turn are appended consecutively, and
\* whenever no turn of a session is between its two appends the session's
\* messages alternate user, assistant in even number, except that a purge run
\* between the two appends of a turn leaves that turn's reply as the first
\* message of the session, with no user message before it.
C27_PairsAlternateAfterOrphan ==
    /\ AppendedConsecutively
    /\ AppendsSucceed =>
           \A s \in Sessions :
               Quiet(s) =>
                   LET h == InAppendOrder(FilterSession(store, s))
                   IN /\ Alternates(IF OrphanReply(h) THEN Tail(h) ELSE h)
                      /\ (h # <<>> /\ h[1].role = S_assistant) => OrphanReply(h)

\* a purge ran between the two appends of one turn, and a later turn of the same
\* session appended its pair after the orphaned reply
C27_Witness ==
    \E t, u \in Turns :
        /\ t # u
        /\ AppendsSucceed
        /\ turns[t].pc = "done" /\ turns[u].pc = "done"
        /\ turns[t].session_id = turns[u].session_id
        /\ turns[t].saved[1].id \in deleted
        /\ InAppendOrder(FilterSession(store, turns[t].session_id))
               = <<turns[t].saved[2], turns[u].saved[1], turns[u].saved[2]>>

-----------------------------------------------------------------------------
(* Session isolation                                                         *)

\* the session whose rows a step of the purge removed
PurgedSession(s) ==
    /\ turns' = turns
    /\ store' # store
    /\ deleted' \ deleted = {r.id : r \in FilterSession(store, s)}

\* C28: a step of process_message(S, ...) or of clear_session_history(S),
\* succeeding or failing and interleaved in any way with the operations on
\* other sessions, leaves the stored messages of every session other than S
\* as they were, and no step changes the catalog store.
C28_SessionIsolation ==
    [][/\ catalog' = catalog
       /\ productTable' = productTable
       /\ \A t \in Turns :
              turns'[t] # turns[t] =>
                  /\ OtherSessions(store', turns'[t].session_id)
                         = OtherSessions(store, turns'[t].session_id)
                  /\ \A u \in Turns \ {t} : turns'[u] = turns[u]
       /\ (turns' = turns /\ store' # store) =>
              \E s \in Sessions :
                  /\ PurgedSession(s)
                  /\ OtherSessions(store', s) = OtherSessions(store, s)]_vars

\* a turn of session s2 ran and was purged, a turn of session s1 ran: the store
\* holds the two rows of s1's turn
C28_Witness ==
    \E t, u \in Turns :
        /\ turns[t].session_id = S_s1 /\ turns[u].session_id = S_s2
        /\ turns[t].pc = "done" /\ turns[u].pc = "done"
        /\ turns[u].saved[1].id \in deleted /\ turns[u].saved[2].id \in deleted
        /\ store = {turns[t].saved[1], turns[t].saved[2]}
        /\ catalog = Catalog

\* lemma (SpecStore): the repository calls get_session_history(S) and
\* delete_session_history(S), the latter in its two steps, leave the rows of the
\* other sessions and the catalog as they were; the history query changes no row
StoreCallsIsolated ==
    [][/\ catalog' = catalog
       /\ productTable' = productTable
       /\ hist' # hist => store' = store
       /\ \A p \in Purgers :
              purge'[p].pc # purge[p].pc =>
                  OtherSessions(store', purge'[p].session_id)
                      = OtherSessions(store, purge'[p].session_id)]_vars

-----------------------------------------------------------------------------
(* The stock of a Product over a sequence of calls                           *)

\* Product(...) with every stock a ProductDTO may carry: the constructions
\* that __post_init__ lets through
StockInit ==
    /\ store = {}
    /\ nextId = 1
    /\ deleted = {}
    /\ clock = 0
    /\ catalog = Catalog
    /\ running = 0
    /\ turns = [t \in Turns |-> IdleTurn]
    /\ ctx = NoCtx
    /\ ctxOut = NoCtxOut
    /\ GeminiIdle
    /\ StoreCallsIdle
    /\ productTable = SeedProducts
    /\ nextPid = 2
    /\ pcall = NoProductCall
    /\ \E stock \in ProductStocks :
           /\ Product_post_init(S_Pegasus, Num(1), stock).ok
           /\ item = [id |-> <<1>>, name |-> S_Pegasus, price |-> Num(1), stock |-> stock]
           /\ stockOp = [NoStockOp EXCEPT !.initial = stock]

SpecStockFrom == StockInit /\ [][StockNext]_vars

\* C29: after any sequence of reduce_stock and increase_stock calls on a
\* validly constructed Product, each succeeding or failing, stock >= 0,
\* is_available() is true exactly when stock > 0, and stock is the initial
\* stock plus the successful increases minus the successful reductions.
C29_StockAccounting ==
    /\ item.stock >= 0
    /\ Product_is_available(item) <=> item.stock > 0
    /\ item.stock = stockOp.initial + stockOp.net

\* a failed call on an entity built with stock, which the calls that returned
\* have emptied
C29_Witness ==
    /\ stockOp.initial > 0
    /\ stockOp.net = 0 - stockOp.initial
    /\ stockOp.op # "none"
    /\ ~stockOp.ok
    /\ ~Product_is_available(item)

-----------------------------------------------------------------------------
(* GeminiService._build_prompt given a ChatContext and given its text        *)

\* the catalogs and the user messages _build_prompt is given
PromptCatalogs == {<<>>, GenProducts}
PromptMessages == {S_hi, S_two_lines}

\* self._build_prompt(user_message, products, ctx)
BuildPromptFromContext ==
    /\ IsNone(built.from_context)
    /\ built' = [built EXCEPT !.from_context =
                     <<GeminiService_build_prompt(
                           built.user_message, built.products,
                           [kind |-> "ChatContext", val |-> ctx])>>]
    /\ UNCHANGED <<model, gen, downgraded, chatVars, ctxVars, storeCallVars, entityVars>>

\* self._build_prompt(user_message, products, ctx.format_for_prompt())
BuildPromptFromText ==
    /\ IsNone(built.from_text)
    /\ built' = [built EXCEPT !.from_text =
                     <<GeminiService_build_prompt(
                           built.user_message, built.products,
                           [kind |-> "str", val |-> ChatContext_format_for_prompt(ctx).val])>>]
    /\ UNCHANGED <<model, gen, downgraded, chatVars, ctxVars, storeCallVars, entityVars>>

\* every context up to MaxLen messages, with each catalog and user message
PromptInit ==
    /\ store = {}
    /\ nextId = 1
    /\ deleted = {}
    /\ clock = 0
    /\ catalog = Catalog
    /\ running = 0
    /\ turns = [t \in Turns |-> IdleTurn]
    /\ \E l \in CtxLists, k \in CtxBounds : ctx = [messages |-> l, max_messages |-> k]
    /\ ctxOut = NoCtxOut
    /\ model = PrimaryModel
    /\ gen = [g \in Gens |-> IdleGen]
    /\ downgraded = FALSE
    /\ \E m \in PromptMessages, ps \in PromptCatalogs :
           built = [NoPrompts EXCEPT !.user_message = m, !.products = ps]
    /\ StoreCallsIdle
    /\ EntitiesIdle

PromptNext == BuildPromptFromContext \/ BuildPromptFromText

SpecPrompt == PromptInit /\ [][PromptNext]_vars

S_no_products == <<"-", " ", "(", "s", "i", "n", " ", "p", "r", "o", "d", "u", "c", "t", "o", "s", ")">>

\* the sections of the prompt for the arguments of the calls, in their order
PromptSections ==
    <<PromptPreamble,
      PromptCatalogHeader
          \o (IF built.products = <<>> THEN S_no_products
              ELSE JoinLines([i \in 1..Len(built.products) |->
                                 format_product_line(built.products[i])]))
          \o <<"\n", "\n">>,
      PromptInstructions,
      JoinLines([i \in 1..Len(CtxWindow) |-> TranscriptLine(CtxWindow[i])])
          \o <<"\n", "\n">>,
      PromptUserCue \o built.user_message \o <<"\n", "\n">>,
      PromptAssistantCue>>

RECURSIVE Concat(_)
Concat(seqs) == IF seqs = <<>> THEN <<>> ELSE Head(seqs) \o Concat(Tail(seqs))

\* C30: _build_prompt returns the same prompt for a ChatContext and for the
\* text format_for_prompt() gives of it, and either prompt is the preamble, the
\* catalog section (the placeholder line for an empty catalog), the
\* instruction block, the transcript, the new user message and the assistant
\* cue, in that order.
C30_SamePrompt ==
    /\ (~IsNone(built.from_context) /\ ~IsNone(built.from_text)) =>
           built.from_context = built.from_text
    /\ ~IsNone(built.from_context) => built.from_context[1] = Concat(PromptSections)
    /\ ~IsNone(built.from_text) => built.from_text[1] = Concat(PromptSections)

\* both calls were made for a context of several messages cut by its bound,
\* with an empty catalog
C30_Witness ==
    /\ ~IsNone(built.from_context)
    /\ ~IsNone(built.from_text)
    /\ built.products = <<>>
    /\ Len(ctx.messages) >= 2
    /\ Len(CtxWindow) = 1
    /\ CtxWindow[1].role = S_asistente

====
